---------------------------- MODULE Spec2Model ----------------------------
(***************************************************************************)
(* A model of convert() of src/src/convert.ts (the node:fs version, lines  *)
(* 1-295): existence check, read, extension dispatch, PDF / DOCX / image   *)
(* extraction, prompt assembly, the streamed model call, the Markdown      *)
(* write and the clean-up of unused images.                                *)
(*                                                                         *)
(* JavaScript strings are TLA+ strings; the i-th character of s is         *)
(* SubSeq(s, i, i).  Every await of the code is a position of pc; the code *)
(* between two awaits is one action.                                       *)
(***************************************************************************)
EXTENDS Integers, Sequences, FiniteSets, TLC

(***************************************************************************)
(* Bounds of the model.                                                    *)
(***************************************************************************)
MaxPages == 2
MaxDocxImages == 2
MaxChunks == 2

(***************************************************************************)
(* String helpers (JavaScript / node:path semantics).                      *)
(***************************************************************************)
\* s.charAt(i - 1): the i-th character, "" outside the string.
Char(s, i) == IF i \in 1..Len(s) THEN SubSeq(s, i, i) ELSE ""

\* The lower-case letter of each upper-case letter, and the converse.
LowerOf ==
    [ A |-> "a", B |-> "b", C |-> "c", D |-> "d", E |-> "e", F |-> "f", G |-> "g",
      H |-> "h", I |-> "i", J |-> "j", K |-> "k", L |-> "l", M |-> "m", N |-> "n",
      O |-> "o", P |-> "p", Q |-> "q", R |-> "r", S |-> "s", T |-> "t", U |-> "u",
      V |-> "v", W |-> "w", X |-> "x", Y |-> "y", Z |-> "z" ]

UpperOf ==
    [ a |-> "A", b |-> "B", c |-> "C", d |-> "D", e |-> "E", f |-> "F", g |-> "G",
      h |-> "H", i |-> "I", j |-> "J", k |-> "K", l |-> "L", m |-> "M", n |-> "N",
      o |-> "O", p |-> "P", q |-> "Q", r |-> "R", s |-> "S", t |-> "T", u |-> "U",
      v |-> "V", w |-> "W", x |-> "X", y |-> "Y", z |-> "Z" ]

\* String.prototype.toLowerCase on one character.
LowerChar(c) == IF c \in DOMAIN LowerOf THEN LowerOf[c] ELSE c

\* String.prototype.toUpperCase on one character.
UpperChar(c) == IF c \in DOMAIN UpperOf THEN UpperOf[c] ELSE c

RECURSIVE ToLowerCase(_)
ToLowerCase(s) ==
    IF Len(s) = 0 THEN ""
    ELSE LowerChar(Head(s)) \o ToLowerCase(Tail(s))

RECURSIVE ToUpperCase(_)
ToUpperCase(s) ==
    IF Len(s) = 0 THEN ""
    ELSE UpperChar(Head(s)) \o ToUpperCase(Tail(s))

\* Largest index <= k of character c in s, 0 when absent.
RECURSIVE LastIndexUpTo(_, _, _)
LastIndexUpTo(s, c, k) ==
    IF k = 0 THEN 0
    ELSE IF SubSeq(s, k, k) = c THEN k
    ELSE LastIndexUpTo(s, c, k - 1)

\* Largest index of character c in s, 0 when absent (lastIndexOf + 1).
LastIndexOf(s, c) == LastIndexUpTo(s, c, Len(s))

\* Smallest index >= from of character c in s, 0 when absent.
RECURSIVE IndexFrom(_, _, _)
IndexFrom(s, c, from) ==
    IF from > Len(s) THEN 0
    ELSE IF SubSeq(s, from, from) = c THEN from
    ELSE IndexFrom(s, c, from + 1)

\* node:path basename(p) for a path without trailing separator.
Basename(p) == SubSeq(p, LastIndexOf(p, "/") + 1, Len(p))

\* node:path dirname(p) for a relative path without trailing separator.
Dirname(p) ==
    LET k == LastIndexOf(p, "/")
    IN  IF k = 0 THEN "." ELSE IF k = 1 THEN "/" ELSE SubSeq(p, 1, k - 1)

\* node:path join(dir, name) for a normalised dir and a plain file name.
Join(dir, name) == IF dir = "." THEN name ELSE dir \o "/" \o name

\* node:path extname(p): from the last "." of the basename to its end; ""
\* when there is none or when the basename starts with its only ".".
Extname(p) ==
    LET b == Basename(p)
        d == LastIndexOf(b, ".")
    IN  IF d <= 1 \/ b = ".." THEN "" ELSE SubSeq(b, d, Len(b))

\* String.prototype.split("/")[1]: the text between the first and the second
\* "/" (or the end); Undefined when s holds no "/".
Undefined == "<undefined>"

SplitSlashSecond(s) ==
    LET a == IndexFrom(s, "/", 1)
    IN  IF a = 0 THEN Undefined
        ELSE LET b == IndexFrom(s, "/", a + 1)
             IN  SubSeq(s, a + 1, IF b = 0 THEN Len(s) ELSE b - 1)

\* Template-literal formatting of a non-negative integer.
NumToString(n) == ToString(n)

Digits == "0123456789"

DigitValue(c) == (CHOOSE k \in 1..10 : Char(Digits, k) = c) - 1

IsDigits(s) ==
    /\ Len(s) > 0
    /\ \A i \in 1..Len(s) : \E k \in 1..10 : Char(Digits, k) = Char(s, i)

RECURSIVE ParseNat(_)
ParseNat(s) ==
    IF Len(s) = 0 THEN 0
    ELSE 10 * ParseNat(SubSeq(s, 1, Len(s) - 1)) + DigitValue(Char(s, Len(s)))

(***************************************************************************)
(* The image regular expression of the clean-up step                       *)
(*   /!\[.*?\]\(([^)]+\.(png|jpg|jpeg|gif|webp))\)/gi                      *)
(***************************************************************************)
RegexExtensions == {"png", "jpg", "jpeg", "gif", "webp"}

\* "." of a regular expression without the s flag: any character but a
\* line terminator.
IsLineTerminator(c) == c \in {"\n", "\r"}

\* ([^)]+\.(png|jpg|jpeg|gif|webp)) against the whole of seg, under flag i.
IsCaptureText(seg) ==
    \E e \in RegexExtensions :
        /\ Len(seg) >= Len(e) + 2
        /\ ToLowerCase(SubSeq(seg, Len(seg) - Len(e) + 1, Len(seg))) = e
        /\ Char(seg, Len(seg) - Len(e)) = "."

\* The regex matched with "!" at s and "](" at j, j+1: [^)]+ cannot cross a
\* ")" and the match must end with one, so the capture is the text between
\* "(" and the first ")" behind it.
MatchWith(md, s, j) ==
    /\ Char(md, j) = "]"
    /\ Char(md, j + 1) = "("
    /\ \A k \in (s + 2)..(j - 1) : ~IsLineTerminator(Char(md, k))
    /\ LET q == IndexFrom(md, ")", j + 2)
       IN  /\ q # 0
           /\ IsCaptureText(SubSeq(md, j + 2, q - 1))

\* A match starts at s.
MatchesAt(md, s) ==
    /\ Char(md, s) = "!"
    /\ Char(md, s + 1) = "["
    /\ \E j \in (s + 2)..(Len(md) - 1) : MatchWith(md, s, j)

\* The lazy .*? takes the first "](" for which the rest matches.
LazyClose(md, s) ==
    CHOOSE j \in (s + 2)..(Len(md) - 1) :
        /\ MatchWith(md, s, j)
        /\ \A k \in (s + 2)..(j - 1) : ~MatchWith(md, s, k)

\* imageRegex.exec(markdownText) from lastIndex (1-based): the leftmost match,
\* as [found, capture (match[1]), next (the new lastIndex)].
RegexExec(md, lastIndex) ==
    IF \E s \in lastIndex..Len(md) : MatchesAt(md, s)
    THEN LET s == CHOOSE t \in lastIndex..Len(md) :
                    /\ MatchesAt(md, t)
                    /\ \A u \in lastIndex..(t - 1) : ~MatchesAt(md, u)
             j == LazyClose(md, s)
             q == IndexFrom(md, ")", j + 2)
         IN  [found |-> TRUE, capture |-> SubSeq(md, j + 2, q - 1), next |-> q + 1]
    ELSE [found |-> FALSE, capture |-> "", next |-> 1]

\* The while loop that fills usedImages.
RECURSIVE UsedImagesFrom(_, _)
UsedImagesFrom(md, lastIndex) ==
    LET m == RegexExec(md, lastIndex)
    IN  IF ~m.found THEN {}
        ELSE (IF m.capture # "" THEN {m.capture} ELSE {})
                \cup UsedImagesFrom(md, m.next)

UsedImages(md) == UsedImagesFrom(md, 1)

(***************************************************************************)
(* Values of the model.                                                    *)
(***************************************************************************)
Null == "<null>"

\* Paths convert is called with.
InputPaths == {"in/report.PDF", "in/letter.docx", "in/scan.jpeg", "in/notes.txt", "in/README"}
OutputPaths == {"out/doc.md"}

\* The options argument of convert, as the set of the properties it defines.
\* Omitted, options is {} (line 23).
ConvertOptions == { {}, {<< "respectPages", TRUE >>}, {<< "respectPages", FALSE >>} }

\* Mutant of RespectPagesOf: the default is true.
RespectPagesDefaultTrue(opts) == << "respectPages", FALSE >> \notin opts

\* Line 25: const { respectPages = false } = options.
RespectPagesOf(opts) == << "respectPages", TRUE >> \in opts

\* The options of the runs of convert: the command line passes none but
\* onProgress (cli.ts lines 291-295).
OptionsValues == { {} }

\* What the output directory may hold before the run.
InitialDisks == { <<>> }

supportedExtensions == {".pdf", ".docx", ".png", ".jpg", ".jpeg", ".gif", ".webp"}
imageExtensions == {".png", ".jpg", ".jpeg", ".gif", ".webp"}

RECURSIVE SeqsUpTo(_, _)
SeqsUpTo(S, n) ==
    IF n = 0 THEN {<<>>}
    ELSE LET shorter == SeqsUpTo(S, n - 1)
         IN  shorter \cup { Append(q, e) : q \in { r \in shorter : Len(r) = n - 1 }, e \in S }

\* The pages of the PDF documents: what the parsing collaborator reports of a
\* page as its screenshot, its text and its embedded images.  hasImages is the
\* truth of "pageImages && pageImages.images", an image without data is one
\* for which "image && image.data" is false.
PageKinds ==
    { [screenshot |-> [data |-> "SHOT"],
       text |-> [text |-> "T"],
       images |-> [hasImages |-> TRUE,
                   images |-> << [data |-> "IMG"], [data |-> Undefined], [data |-> "IMG"] >>]],
      [screenshot |-> [data |-> Undefined],
       text |-> [text |-> ""],
       images |-> [hasImages |-> FALSE, images |-> <<>>]] }

PdfDocuments == SeqsUpTo(PageKinds, MaxPages) \ {<<>>}

\* A page-aligned array of the collaborator: the entries of the first n pages.
\* The three arrays need not have the same length.
PagesArrays(entries) ==
    { SubSeq(entries, 1, n) : n \in 0..Len(entries) }

\* Declared content types of the embedded images of a DOCX document.
ContentTypes == {"image/jpeg", "image", Undefined}

\* Text chunks the model stream may deliver.
Chunks == { "![x](image_1.png)", "![x](image_1.PNG)", "![y](image_2.png)" }

\* Buffer.toString("base64"), kept symbolic: distinct from its argument and
\* empty exactly for empty data.
Base64(d) == IF d = "" THEN "" ELSE "base64:" \o d

VARIABLES
    pc,              \* position of the run: the await it is suspended at
    inputPath,       \* inputFilePath
    inputExists,     \* whether inputFilePath exists
    outputPath,      \* outputPath
    options,         \* the options argument
    respectPages,    \* respectPages, after the default of line 25
    other,           \* the run of convert that is suspended while this one executes
    cli,             \* the process of the command line: main of cli.ts
    disk,            \* the files of the file system written by the run: path -> content
    pdfPages,        \* the pages of the PDF document (<<>> before it is parsed)
    screenshotPages, textPages, imagePages,
    pageIndex, imageIndex, globalImageIndex,
    docxImages,      \* content types of the embedded images of the DOCX document
    rawText,
    hooks,           \* the convertImage invocations: state, filename
    overlap,         \* whether the DOCX collaborator starts a hook before the previous one returned
    savedImages, pageContents, userContent,
    chunks,          \* the text chunks of the model stream received so far
    markdownContent, usedImages, deletedCount,
    result,          \* the ConvertResult convert resolves with (NoResult before)
    error,           \* the error convert rejects with, Null before
    trace            \* the operations on the file system and the collaborators, in order

vars == << pc, inputPath, inputExists, outputPath, options, respectPages, other, cli,
           disk, pdfPages,
           screenshotPages, textPages, imagePages, pageIndex, imageIndex,
           globalImageIndex, docxImages, rawText, hooks, overlap, savedImages,
           pageContents, userContent, chunks, markdownContent, usedImages,
           deletedCount, result, error, trace >>

pdfVars == << pdfPages, screenshotPages, textPages, imagePages, pageIndex, imageIndex >>
docxVars == << docxImages, rawText, hooks >>
inputVars == << inputPath, inputExists, outputPath, options, respectPages, overlap,
               other, cli >>
cleanupVars == << chunks, usedImages, deletedCount >>

Event(op, arg, ok) == [op |-> op, arg |-> arg, ok |-> ok]

WriteTo(d, path, content) ==
    [p \in (DOMAIN d) \cup {path} |-> IF p = path THEN content ELSE d[p]]

\* Mutant of Unlink: the file stays.
UnlinkKeepsFile(d, path) == d

Unlink(d, path) == [p \in (DOMAIN d) \ {path} |-> d[p]]

fileExtension == ToLowerCase(Extname(inputPath))

\* Mutant of outputDir: one directory for the images of every run.
outputDirOfProcess == "tmp"

\* Line 45.
outputDir == Dirname(outputPath)

\* Line 27: existsSync(inputFilePath).  The input is there from the start
\* (inputExists) or is a file some run of convert has written.
InputPresent == inputExists \/ inputPath \in DOMAIN disk

\* Line 31: the content readFile resolves with.
InputBuffer == IF inputPath \in DOMAIN disk THEN disk[inputPath] ELSE "FILE"
isImageFile == fileExtension \in imageExtensions

NoResult == [outputPath |-> Null, imagesSaved |-> 0, imagesDeleted |-> 0]

\* Lines 38-40: the message of the error for an extension that is not supported.
UnsupportedFileType(ext) ==
    "Unsupported file type: " \o ext
    \o ". Supported: PDF (.pdf), DOCX (.docx), Images (.png, .jpg, .jpeg, .gif, .webp)"

\* No second run of convert; no command-line process.
NoRun == [pc |-> "none"]
NoCli == [pc |-> "none"]

InitWith(inputs, overlaps, optionsValues) ==
    /\ pc = "start"
    /\ inputPath \in inputs
    /\ inputExists \in BOOLEAN
    /\ outputPath \in OutputPaths
    /\ options \in optionsValues
    /\ respectPages = RespectPagesOf(options)
    /\ other = NoRun
    /\ disk \in InitialDisks
    /\ overlap \in overlaps
    /\ pdfPages = <<>>
    /\ screenshotPages = <<>> /\ textPages = <<>> /\ imagePages = <<>>
    /\ pageIndex = 0 /\ imageIndex = 0 /\ globalImageIndex = 0
    /\ docxImages = <<>> /\ rawText = "" /\ hooks = <<>>
    /\ savedImages = <<>> /\ pageContents = <<>> /\ userContent = <<>>
    /\ chunks = <<>> /\ markdownContent = "" /\ usedImages = {} /\ deletedCount = 0
    /\ result = NoResult /\ error = Null
    /\ trace = <<>>

Init == InitWith(InputPaths, {FALSE}, OptionsValues) /\ cli = NoCli

(***************************************************************************)
(* Prompt assembly (convert.ts lines 186-234).                             *)
(***************************************************************************)
ImageInstruction ==
    "Extract all text content from the following image and convert it to a well-formatted Markdown document. Accurately capture all text, preserving structure including headings, lists, tables, and any formatting visible in the image. If the image contains diagrams, charts, or non-text elements, describe them briefly. Output ONLY the markdown content, no explanations."

DocxInstruction ==
    "Convert the following DOCX document content to a well-formatted Markdown document. I will provide the extracted HTML and raw text content. Convert this to clean Markdown, preserving the structure including headings, lists, tables, and any special formatting. I have also extracted embedded images from the document and saved them as separate files. Include images in the markdown using the format ![alt text](filename). Output ONLY the markdown content, no explanations."

PdfPagesInstruction ==
    "Convert the following PDF pages to a well-formatted Markdown document. For each page, I will provide the extracted text and a screenshot image. Use the screenshot to understand the visual layout, tables, and formatting. I have also extracted embedded images from the PDF and saved them as separate files. If you see references to images in the text or screenshots, include them in the markdown using the format ![alt text](filename). Preserve the structure including headings, lists, tables, and any special formatting. Output ONLY the markdown content, no explanations."

PdfMergedInstruction ==
    "Convert the following PDF pages to a well-formatted Markdown document. Do NOT treat each page as a separate section: ignore repeated headers and footers that appear on every page and merge content into a single continuous document. Use the screenshots to understand visual layout, tables, and formatting. I have also extracted embedded images from the PDF and saved them as separate files. If you see references to images in the text or screenshots, include them in the markdown using the format ![alt text](filename). Do NOT insert horizontal rules (---) between pages. Preserve structure including headings, lists, tables, and any special formatting. Output ONLY the markdown content, no explanations."

\* Mutant of initialInstruction: the two PDF templates change places.
initialInstructionSwapped(ext, respect) ==
    IF ext \in imageExtensions THEN ImageInstruction
    ELSE IF ext = ".docx" THEN DocxInstruction
    ELSE IF respect THEN PdfMergedInstruction ELSE PdfPagesInstruction

\* Lines 186-199.
initialInstruction(ext, respect) ==
    IF ext \in imageExtensions THEN ImageInstruction
    ELSE IF ext = ".docx" THEN DocxInstruction
    ELSE IF respect THEN PdfPagesInstruction ELSE PdfMergedInstruction

\* Array.prototype.join(", ").
RECURSIVE JoinComma(_)
JoinComma(names) ==
    IF Len(names) = 0 THEN ""
    ELSE IF Len(names) = 1 THEN names[1]
    ELSE names[1] \o ", " \o JoinComma(Tail(names))

\* Mutant of PageTextBlock: the trailer is there for every page.
PageTextBlockTrailerAlways(page) ==
    [type |-> "text",
     text |-> "\n--- Page " \o NumToString(page.pageNumber) \o " ---\nExtracted text:\n"
              \o (IF page.text # "" THEN page.text ELSE "(No text extracted)")
              \o "\n\nExtracted images on this page: " \o JoinComma(page.imageFilenames)]

\* Lines 214-223: the text block of one page.
PageTextBlock(page) ==
    [type |-> "text",
     text |-> "\n--- Page " \o NumToString(page.pageNumber) \o " ---\nExtracted text:\n"
              \o (IF page.text # "" THEN page.text ELSE "(No text extracted)")
              \o (IF Len(page.imageFilenames) > 0
                  THEN "\n\nExtracted images on this page: " \o JoinComma(page.imageFilenames)
                  ELSE "")]

PageImageBlock(page) ==
    [type |-> "image", image |-> page.imageBase64,
     mimeType |-> IF page.mimeType # Undefined THEN page.mimeType ELSE "image/png"]

\* Mutant of PageParts: the image block comes before the text block.
PagePartsImageFirst(page, isImage) ==
    (IF page.imageBase64 \notin {Null, ""} THEN <<PageImageBlock(page)>> ELSE <<>>)
    \o (IF ~isImage THEN <<PageTextBlock(page)>> ELSE <<>>)

\* Lines 211-233: the parts of one page.
PageParts(page, isImage) ==
    (IF ~isImage THEN <<PageTextBlock(page)>> ELSE <<>>)
    \o (IF page.imageBase64 \notin {Null, ""} THEN <<PageImageBlock(page)>> ELSE <<>>)

RECURSIVE AllPageParts(_, _)
AllPageParts(pages, isImage) ==
    IF Len(pages) = 0 THEN <<>>
    ELSE PageParts(pages[1], isImage) \o AllPageParts(Tail(pages), isImage)

BuildUserContent(ext, respect, pages) ==
    << [type |-> "text", text |-> initialInstruction(ext, respect)] >>
    \o AllPageParts(pages, ext \in imageExtensions)

\* Lines 186-252: having the pages, assemble the message and call streamText.
CallModel(pages) ==
    /\ pageContents' = pages
    /\ userContent' = BuildUserContent(fileExtension, respectPages, pages)
    /\ pc' = "stream"

(***************************************************************************)
(* Lines 27-31: the existence check, then the read of the input file.      *)
(***************************************************************************)

\* Mutant of Start: the extension is checked before the existence.
StartExtensionFirst ==
    /\ pc = "start"
    /\ IF fileExtension \notin supportedExtensions
       THEN /\ pc' = "rejected"
            /\ error' = UnsupportedFileType(fileExtension)
            /\ trace' = trace
       ELSE IF ~InputPresent
       THEN /\ pc' = "rejected"
            /\ error' = "File not found: " \o inputPath
            /\ trace' = Append(trace, Event("existsSync", inputPath, FALSE))
       ELSE /\ pc' = "readFile"
            /\ error' = error
            /\ trace' = Append(trace, Event("existsSync", inputPath, TRUE))
    /\ UNCHANGED << inputVars, disk, pdfVars, globalImageIndex, docxVars, savedImages,
                    pageContents, userContent, markdownContent, cleanupVars, result >>

Start ==
    /\ pc = "start"
    /\ IF ~InputPresent
       THEN /\ pc' = "rejected"
            /\ error' = "File not found: " \o inputPath
            /\ trace' = Append(trace, Event("existsSync", inputPath, FALSE))
       ELSE /\ pc' = "readFile"
            /\ error' = error
            /\ trace' = Append(trace, Event("existsSync", inputPath, TRUE))
    /\ UNCHANGED << inputVars, disk, pdfVars, globalImageIndex, docxVars, savedImages,
                    pageContents, userContent, markdownContent, cleanupVars, result >>

mimeTypeMap(ext) ==
    CASE ext = ".png" -> "image/png"
      [] ext = ".jpg" -> "image/jpeg"
      [] ext = ".jpeg" -> "image/jpeg"
      [] ext = ".gif" -> "image/gif"
      [] ext = ".webp" -> "image/webp"
      [] OTHER -> Undefined

\* Lines 161-184: the single page of a bare image.
ImagePage(ext, inputBuffer) ==
    [pageNumber |-> 1, text |-> "", imageBase64 |-> Base64(inputBuffer),
     imageFilenames |-> <<>>,
     mimeType |-> IF mimeTypeMap(ext) # Undefined THEN mimeTypeMap(ext) ELSE "image/png"]

\* Lines 31-64, 116-121, 161-252: the read resolved; extension check and dispatch.
ReadFileDone ==
    /\ pc = "readFile"
    /\ LET read == Append(trace, Event("readFile", inputPath, TRUE))
       IN  IF fileExtension \notin supportedExtensions
           THEN /\ pc' = "rejected"
                /\ error' = UnsupportedFileType(fileExtension)
                /\ trace' = read
                /\ UNCHANGED << pdfPages, pageContents, userContent >>
           ELSE IF fileExtension = ".pdf"
           THEN /\ pc' = "getScreenshot"
                /\ pdfPages' \in PdfDocuments
                /\ trace' = Append(read, Event("new PDFParse", inputPath, TRUE))
                /\ UNCHANGED << error, pageContents, userContent >>
           ELSE IF fileExtension = ".docx"
           THEN /\ pc' = "extractRawText"
                /\ trace' = read
                /\ UNCHANGED << error, pdfPages, pageContents, userContent >>
           ELSE /\ CallModel(<< ImagePage(fileExtension, InputBuffer) >>)
                /\ trace' = Append(read, Event("streamText", "", TRUE))
                /\ UNCHANGED << error, pdfPages >>
    /\ UNCHANGED << inputVars, disk, screenshotPages, textPages, imagePages, pageIndex,
                    imageIndex, globalImageIndex, docxVars, savedImages,
                    markdownContent, cleanupVars, result >>

(***************************************************************************)
(* An awaited operation rejects: convert has no try/catch around any of    *)
(* them, so the rejection is convert's.                                    *)
(***************************************************************************)
FailingAwaits ==
    { "readFile", "getScreenshot", "getText", "getImage", "destroy", "writeImage",
      "extractRawText", "stream", "writeMarkdown" }

\* Mutant of AwaitRejects: what the stream delivered before it failed is
\* written to the output path.
AwaitRejectsWritingMarkdown ==
    /\ pc \in FailingAwaits
    /\ pc' = "rejected"
    /\ error' = "Error: " \o pc
    /\ IF pc = "stream"
       THEN /\ disk' = WriteTo(disk, outputPath, markdownContent)
            /\ trace' = Append(Append(trace, Event(pc, "", FALSE)),
                               Event("writeFile", outputPath, TRUE))
       ELSE /\ disk' = disk
            /\ trace' = Append(trace, Event(pc, "", FALSE))
    /\ UNCHANGED << inputVars, pdfVars, globalImageIndex, docxVars, savedImages,
                    pageContents, userContent, markdownContent, cleanupVars, result >>

\* Mutant of AwaitRejects: a failed stream is followed by a second call of
\* the model.
AwaitRejectsRetrying ==
    /\ pc \in FailingAwaits
    /\ IF pc = "stream" /\ ~\E k \in 1..Len(trace) : trace[k] = Event("stream", "", FALSE)
       THEN /\ pc' = "stream"
            /\ error' = error
            /\ trace' = Append(Append(trace, Event(pc, "", FALSE)),
                               Event("streamText", "", TRUE))
       ELSE /\ pc' = "rejected"
            /\ error' = "Error: " \o pc
            /\ trace' = Append(trace, Event(pc, "", FALSE))
    /\ UNCHANGED << inputVars, disk, pdfVars, globalImageIndex, docxVars, savedImages,
                    pageContents, userContent, markdownContent, cleanupVars, result >>

\* Mutant of AwaitRejects: a failed stream is followed by the removal of the
\* saved images.
AwaitRejectsRemovingImages ==
    /\ pc \in FailingAwaits
    /\ pc' = "rejected"
    /\ error' = "Error: " \o pc
    /\ trace' = Append(trace, Event(pc, "", FALSE))
    /\ disk' = IF pc = "stream"
               THEN [p \in (DOMAIN disk) \ { Join(outputDir, savedImages[k].filename) :
                                               k \in 1..Len(savedImages) } |-> disk[p]]
               ELSE disk
    /\ UNCHANGED << inputVars, pdfVars, globalImageIndex, docxVars, savedImages,
                    pageContents, userContent, markdownContent, cleanupVars, result >>

AwaitRejects ==
    /\ pc \in FailingAwaits
    /\ pc' = "rejected"
    /\ error' = "Error: " \o pc
    /\ trace' = Append(trace, Event(pc, "", FALSE))
    /\ UNCHANGED << inputVars, disk, pdfVars, globalImageIndex, docxVars, savedImages,
                    pageContents, userContent, markdownContent, cleanupVars, result >>

(***************************************************************************)
(* PDF branch (lines 60-115).                                              *)
(***************************************************************************)
GetScreenshotDone ==
    /\ pc = "getScreenshot"
    /\ screenshotPages' \in PagesArrays([i \in 1..Len(pdfPages) |-> pdfPages[i].screenshot])
    /\ pc' = "getText"
    /\ trace' = Append(trace, Event("getScreenshot", "", TRUE))
    /\ UNCHANGED << inputVars, disk, pdfPages, textPages, imagePages, pageIndex, imageIndex,
                    globalImageIndex, docxVars, savedImages, pageContents, userContent,
                    markdownContent, cleanupVars, result, error >>

GetTextDone ==
    /\ pc = "getText"
    /\ textPages' \in PagesArrays([i \in 1..Len(pdfPages) |-> pdfPages[i].text])
    /\ pc' = "getImage"
    /\ trace' = Append(trace, Event("getText", "", TRUE))
    /\ UNCHANGED << inputVars, disk, pdfPages, screenshotPages, imagePages, pageIndex,
                    imageIndex, globalImageIndex, docxVars, savedImages, pageContents,
                    userContent, markdownContent, cleanupVars, result, error >>

GetImageDone ==
    /\ pc = "getImage"
    /\ imagePages' \in PagesArrays([i \in 1..Len(pdfPages) |-> pdfPages[i].images])
    /\ pc' = "destroy"
    /\ trace' = Append(trace, Event("getImage", "", TRUE))
    /\ UNCHANGED << inputVars, disk, pdfPages, screenshotPages, textPages, pageIndex,
                    imageIndex, globalImageIndex, docxVars, savedImages, pageContents,
                    userContent, markdownContent, cleanupVars, result, error >>

\* Lines 70-76: destroy resolved; the save loop starts at page 0, image 0.
DestroyDone ==
    /\ pc = "destroy"
    /\ pc' = "saveLoop"
    /\ pageIndex' = 0
    /\ imageIndex' = 0
    /\ globalImageIndex' = 0
    /\ trace' = Append(trace, Event("destroy", "", TRUE))
    /\ UNCHANGED << inputVars, disk, pdfPages, screenshotPages, textPages, imagePages,
                    docxVars, savedImages, pageContents, userContent, markdownContent,
                    cleanupVars, result, error >>

\* Lines 102-115: one PageContent per screenshot page.
pdfImageFilenames(saved, n) ==
    LET idx == { k \in 1..Len(saved) : saved[k].pageNumber = n }
        F[k \in 0..Len(saved)] ==
            IF k = 0 THEN <<>>
            ELSE IF k \in idx THEN Append(F[k - 1], saved[k].filename) ELSE F[k - 1]
    IN  F[Len(saved)]

\* Mutant of pdfPageContents: page numbers from 0.
pdfPageContentsZeroBased(shots, texts, saved) ==
    [ i \in 1..Len(shots) |->
        [pageNumber |-> i - 1,
         text |-> IF i <= Len(texts) THEN texts[i].text ELSE "",
         imageBase64 |-> IF shots[i].data # Undefined THEN Base64(shots[i].data) ELSE Null,
         imageFilenames |-> pdfImageFilenames(saved, i),
         mimeType |-> Undefined] ]

pdfPageContents(shots, texts, saved) ==
    [ i \in 1..Len(shots) |->
        [pageNumber |-> i,
         text |-> IF i <= Len(texts) THEN texts[i].text ELSE "",
         imageBase64 |-> IF shots[i].data # Undefined THEN Base64(shots[i].data) ELSE Null,
         imageFilenames |-> pdfImageFilenames(saved, i),
         mimeType |-> Undefined] ]

\* Lines 76-100: the loops over imagePages up to the next await.
SaveLoop ==
    /\ pc = "saveLoop"
    /\ IF pageIndex >= Len(imagePages)
       THEN \* both loops are over: lines 100-252
            /\ CallModel(pdfPageContents(screenshotPages, textPages, savedImages))
            /\ trace' = Append(trace, Event("streamText", "", TRUE))
            /\ UNCHANGED << pageIndex, imageIndex >>
       ELSE LET pageImages == imagePages[pageIndex + 1]
            IN  IF ~pageImages.hasImages \/ imageIndex >= Len(pageImages.images)
                THEN /\ pageIndex' = pageIndex + 1
                     /\ imageIndex' = 0
                     /\ UNCHANGED << pc, pageContents, userContent, trace >>
                ELSE IF pageImages.images[imageIndex + 1].data = Undefined
                THEN /\ imageIndex' = imageIndex + 1
                     /\ UNCHANGED << pc, pageIndex, pageContents, userContent, trace >>
                ELSE /\ pc' = "writeImage"
                     /\ UNCHANGED << pageIndex, imageIndex, pageContents, userContent, trace >>
    /\ UNCHANGED << inputVars, disk, pdfPages, screenshotPages, textPages, imagePages,
                    globalImageIndex, docxVars, savedImages, markdownContent, cleanupVars,
                    result, error >>

\* Mutant of pdfFilename: the index within the page instead of the global one.
pdfFilenamePerPage(index) == "image_" \o NumToString(imageIndex + 1) \o ".png"

pdfFilename(index) == "image_" \o NumToString(index + 1) \o ".png"

\* Lines 86-95: writeFile resolved; record the image, count it, next image.
WriteImageDone ==
    /\ pc = "writeImage"
    /\ LET filename == pdfFilename(globalImageIndex)
           filepath == Join(outputDir, filename)
       IN  /\ disk' = WriteTo(disk, filepath, imagePages[pageIndex + 1].images[imageIndex + 1].data)
           /\ savedImages' = Append(savedImages,
                  [pageNumber |-> pageIndex + 1, imageIndex |-> imageIndex, filename |-> filename])
           /\ trace' = Append(trace, Event("writeFile", filepath, TRUE))
    /\ globalImageIndex' = globalImageIndex + 1
    /\ imageIndex' = imageIndex + 1
    /\ pc' = "saveLoop"
    /\ UNCHANGED << inputVars, pdfPages, screenshotPages, textPages, imagePages, pageIndex,
                    docxVars, pageContents, userContent, markdownContent, cleanupVars,
                    result, error >>

(***************************************************************************)
(* DOCX branch (lines 116-160).  The conversion collaborator calls the     *)
(* convertImage hook once per embedded image, in document order.           *)
(***************************************************************************)
RawTexts == {"Raw"}

\* Lines 121-147: the raw text is there; convertToHtml is called.
ExtractRawTextDone ==
    /\ pc = "extractRawText"
    /\ rawText' \in RawTexts
    /\ docxImages' \in SeqsUpTo(ContentTypes, MaxDocxImages)
    /\ hooks' = [i \in 1..Len(docxImages') |-> [state |-> "idle", filename |-> ""]]
    /\ globalImageIndex' = 0
    /\ pc' = "convertToHtml"
    /\ trace' = Append(trace, Event("extractRawText", "", TRUE))
    /\ UNCHANGED << inputVars, disk, pdfVars, savedImages, pageContents, userContent,
                    markdownContent, cleanupVars, result, error >>

HookFinished(h) == h.state \in {"returned", "threw"}

\* The collaborator calls the hook for image i; the hook awaits image.read (line 131).
HookStart(i) ==
    /\ pc = "convertToHtml"
    /\ hooks[i].state = "idle"
    /\ \A k \in 1..(i - 1) : hooks[k].state # "idle"
    /\ overlap \/ \A k \in 1..(i - 1) : HookFinished(hooks[k])
    /\ hooks' = [hooks EXCEPT ![i].state = "reading"]
    /\ trace' = Append(trace, Event("convertImage", NumToString(i), TRUE))
    /\ UNCHANGED << pc, inputVars, disk, pdfVars, globalImageIndex, docxImages, rawText,
                    savedImages, pageContents, userContent, markdownContent, cleanupVars,
                    result, error >>

\* Line 132: image.contentType.split("/")[1] || "png".
docxExtension(contentType) ==
    LET subtype == SplitSlashSecond(contentType)
    IN  IF subtype \in {Undefined, ""} THEN "png" ELSE subtype

docxFilename(index, extension) == "image_" \o NumToString(index + 1) \o "." \o extension

\* Lines 131-135: the read resolved; the file name is computed from the
\* counter as it is now and writeFile is awaited.  split of a missing content
\* type throws.
HookReadDone(i) ==
    /\ pc = "convertToHtml"
    /\ hooks[i].state = "reading"
    /\ IF docxImages[i] = Undefined
       THEN hooks' = [hooks EXCEPT ![i].state = "threw"]
       ELSE hooks' = [hooks EXCEPT ![i] =
                [state |-> "writing",
                 filename |-> docxFilename(globalImageIndex, docxExtension(docxImages[i]))]]
    /\ trace' = Append(trace, Event("image.read", NumToString(i), TRUE))
    /\ UNCHANGED << pc, inputVars, disk, pdfVars, globalImageIndex, docxImages, rawText,
                    savedImages, pageContents, userContent, markdownContent, cleanupVars,
                    result, error >>

\* Lines 135-142: writeFile resolved; record the image, count it, return its name.
HookWriteDone(i) ==
    /\ pc = "convertToHtml"
    /\ hooks[i].state = "writing"
    /\ LET filename == hooks[i].filename
           filepath == Join(outputDir, filename)
       IN  /\ disk' = WriteTo(disk, filepath, "DOCXIMG" \o NumToString(i))
           /\ savedImages' = Append(savedImages,
                  [pageNumber |-> 1, imageIndex |-> globalImageIndex, filename |-> filename])
           /\ trace' = Append(trace, Event("writeFile", filepath, TRUE))
    /\ globalImageIndex' = globalImageIndex + 1
    /\ hooks' = [hooks EXCEPT ![i].state = "returned"]
    /\ UNCHANGED << pc, inputVars, pdfVars, docxImages, rawText, pageContents, userContent,
                    markdownContent, cleanupVars, result, error >>

\* image.read or writeFile rejects inside the hook.
HookRejects(i) ==
    /\ pc = "convertToHtml"
    /\ hooks[i].state \in {"reading", "writing"}
    /\ hooks' = [hooks EXCEPT ![i].state = "threw"]
    /\ trace' = Append(trace, Event("convertImage", NumToString(i), FALSE))
    /\ UNCHANGED << pc, inputVars, disk, pdfVars, globalImageIndex, docxImages, rawText,
                    savedImages, pageContents, userContent, markdownContent, cleanupVars,
                    result, error >>

\* The collaborator may pass a hook's exception on: convertToHtml rejects.
ConvertToHtmlRejects ==
    /\ pc = "convertToHtml"
    /\ \E i \in 1..Len(hooks) : hooks[i].state = "threw"
    /\ pc' = "rejected"
    /\ error' = "Error: convertToHtml"
    /\ trace' = Append(trace, Event("convertToHtml", "", FALSE))
    /\ UNCHANGED << inputVars, disk, pdfVars, globalImageIndex, docxVars, savedImages,
                    pageContents, userContent, markdownContent, cleanupVars, result >>

\* The HTML of the collaborator: each image whose hook returned is an <img>
\* with the src the hook returned.
RECURSIVE HtmlOf(_)
HtmlOf(hs) ==
    IF Len(hs) = 0 THEN ""
    ELSE (IF hs[1].state = "returned"
          THEN "<p><img src=\"" \o hs[1].filename \o "\" /></p>" ELSE "")
         \o HtmlOf(Tail(hs))

Filenames(saved) == [k \in 1..Len(saved) |-> saved[k].filename]

\* Mutant of DocxPage: page numbers from 0.
DocxPageZeroBased(htmlWithImages, raw, saved) ==
    [pageNumber |-> 0,
     text |-> "HTML Content:\n" \o htmlWithImages \o "\n\nRaw Text:\n" \o raw,
     imageBase64 |-> Null,
     imageFilenames |-> Filenames(saved),
     mimeType |-> Undefined]

\* Lines 155-160: the single page of a DOCX document.
DocxPage(htmlWithImages, raw, saved) ==
    [pageNumber |-> 1,
     text |-> "HTML Content:\n" \o htmlWithImages \o "\n\nRaw Text:\n" \o raw,
     imageBase64 |-> Null,
     imageFilenames |-> Filenames(saved),
     mimeType |-> Undefined]

\* Mutant of ConvertToHtmlDone: convertToHtml resolves while a hook is still
\* at its await.
ConvertToHtmlDoneEarly ==
    /\ pc = "convertToHtml"
    /\ CallModel(<< DocxPage(HtmlOf(hooks), rawText, savedImages) >>)
    /\ trace' = Append(Append(trace, Event("convertToHtml", "", TRUE)),
                       Event("streamText", "", TRUE))
    /\ UNCHANGED << inputVars, disk, pdfVars, globalImageIndex, docxVars, savedImages,
                    markdownContent, cleanupVars, result, error >>

\* Lines 147-252: convertToHtml resolved, every hook being over.
ConvertToHtmlDone ==
    /\ pc = "convertToHtml"
    /\ \A i \in 1..Len(hooks) : HookFinished(hooks[i])
    /\ CallModel(<< DocxPage(HtmlOf(hooks), rawText, savedImages) >>)
    /\ trace' = Append(Append(trace, Event("convertToHtml", "", TRUE)),
                       Event("streamText", "", TRUE))
    /\ UNCHANGED << inputVars, disk, pdfVars, globalImageIndex, docxVars, savedImages,
                    markdownContent, cleanupVars, result, error >>

(***************************************************************************)
(* The model stream and the Markdown file (lines 254-260).                 *)
(***************************************************************************)
\* Mutant of StreamChunk: the chunk is put before the text received so far.
StreamChunkPrepending(chunk) ==
    /\ pc = "stream"
    /\ Len(chunks) < MaxChunks
    /\ chunks' = Append(chunks, chunk)
    /\ markdownContent' = chunk \o markdownContent
    /\ UNCHANGED << pc, inputVars, disk, pdfVars, globalImageIndex, docxVars, savedImages,
                    pageContents, userContent, usedImages, deletedCount,
                    result, error, trace >>

\* Lines 256-258: markdownContent += chunk.
StreamChunk(chunk) ==
    /\ pc = "stream"
    /\ Len(chunks) < MaxChunks
    /\ chunks' = Append(chunks, chunk)
    /\ markdownContent' = markdownContent \o chunk
    /\ UNCHANGED << pc, inputVars, disk, pdfVars, globalImageIndex, docxVars, savedImages,
                    pageContents, userContent, usedImages, deletedCount,
                    result, error, trace >>

\* The stream ends; writeFile(outputPath, markdownContent) is awaited.
StreamEnd ==
    /\ pc = "stream"
    /\ pc' = "writeMarkdown"
    /\ trace' = Append(trace, Event("textStream", "", TRUE))
    /\ UNCHANGED << inputVars, disk, pdfVars, globalImageIndex, docxVars, savedImages,
                    pageContents, userContent, markdownContent, cleanupVars, result, error >>

(***************************************************************************)
(* The Markdown file and the clean-up of unused images (lines 260-295).    *)
(***************************************************************************)
\* Mutant of IsUnused: the test of usedImages is left out.
IsUnusedIgnoringUse(d, used, imageInfo) ==
    Join(outputDir, imageInfo.filename) \in DOMAIN d

\* Mutant of IsUnused: a captured target protects the file of its base name.
IsUnusedUpToDirectory(d, used, imageInfo) ==
    /\ Join(outputDir, imageInfo.filename) \in DOMAIN d
    /\ ~\E u \in used : Basename(u) = imageInfo.filename

\* Line 280: existsSync(imagePath) && !usedImages.has(imageInfo.filename).
IsUnused(d, used, imageInfo) ==
    /\ Join(outputDir, imageInfo.filename) \in DOMAIN d
    /\ imageInfo.filename \notin used

\* Mutant of CleanupLoop: the first failed deletion ends the loop.
RECURSIVE CleanupLoopEndingAtFailure(_, _, _, _)
CleanupLoopEndingAtFailure(saved, used, failing, acc) ==
    IF Len(saved) = 0 THEN acc
    ELSE LET imageInfo == saved[1]
             imagePath == Join(outputDir, imageInfo.filename)
         IN  IF ~IsUnused(acc.disk, used, imageInfo)
             THEN CleanupLoopEndingAtFailure(Tail(saved), used, failing, acc)
             ELSE IF imagePath \in failing
             THEN [acc EXCEPT !.events = Append(@, Event("unlinkSync", imagePath, FALSE))]
             ELSE CleanupLoopEndingAtFailure(Tail(saved), used, failing,
                      [disk |-> Unlink(acc.disk, imagePath),
                       deletedCount |-> acc.deletedCount + 1,
                       events |-> Append(acc.events, Event("unlinkSync", imagePath, TRUE))])

\* Lines 276-288: the loop over savedImages, from the files, the count and the
\* calls of acc on; unlinkSync throws for the paths of failing, and the catch
\* block ignores it.
RECURSIVE CleanupLoop(_, _, _, _)
CleanupLoop(saved, used, failing, acc) ==
    IF Len(saved) = 0 THEN acc
    ELSE LET imageInfo == saved[1]
             imagePath == Join(outputDir, imageInfo.filename)
         IN  IF ~IsUnused(acc.disk, used, imageInfo)
             THEN CleanupLoop(Tail(saved), used, failing, acc)
             ELSE IF imagePath \in failing
             THEN CleanupLoop(Tail(saved), used, failing,
                      [acc EXCEPT !.events = Append(@, Event("unlinkSync", imagePath, FALSE))])
             ELSE CleanupLoop(Tail(saved), used, failing,
                      [disk |-> Unlink(acc.disk, imagePath),
                       deletedCount |-> acc.deletedCount + 1,
                       events |-> Append(acc.events, Event("unlinkSync", imagePath, TRUE))])

\* The paths unlinkSync may be called on.
UnlinkCandidates(d, used) ==
    { Join(outputDir, savedImages[k].filename) :
        k \in { m \in 1..Len(savedImages) : IsUnused(d, used, savedImages[m]) } }

\* Lines 264-294: usedImages from the Markdown text, the loop over savedImages
\* and the result, all synchronous, on the files of d after the calls of done.
Reconcile(d, done) ==
    \E used \in {UsedImages(markdownContent)} :
        \E failing \in SUBSET UnlinkCandidates(d, used) :
            \E end \in {CleanupLoop(savedImages, used, failing,
                                    [disk |-> d, deletedCount |-> 0, events |-> done])} :
                /\ usedImages' = used
                /\ disk' = end.disk
                /\ deletedCount' = end.deletedCount
                /\ trace' = end.events
                /\ result' = [outputPath |-> outputPath,
                              imagesSaved |-> Len(savedImages),
                              imagesDeleted |-> end.deletedCount]
                /\ pc' = "done"

\* Lines 260-294: the Markdown file is written; the clean-up runs and convert
\* resolves.
WriteMarkdownDone ==
    /\ pc = "writeMarkdown"
    /\ Reconcile(WriteTo(disk, outputPath, markdownContent),
                 Append(trace, Event("writeFile", outputPath, TRUE)))
    /\ UNCHANGED << inputVars, pdfVars, globalImageIndex, docxVars, savedImages,
                    pageContents, userContent, chunks, markdownContent, error >>

Next ==
    \/ Start
    \/ ReadFileDone
    \/ AwaitRejects
    \/ GetScreenshotDone
    \/ GetTextDone
    \/ GetImageDone
    \/ DestroyDone
    \/ SaveLoop
    \/ WriteImageDone
    \/ ExtractRawTextDone
    \/ \E i \in 1..Len(hooks) : HookStart(i)
    \/ \E i \in 1..Len(hooks) : HookReadDone(i)
    \/ \E i \in 1..Len(hooks) : HookWriteDone(i)
    \/ \E i \in 1..Len(hooks) : HookRejects(i)
    \/ ConvertToHtmlRejects
    \/ ConvertToHtmlDone
    \/ \E chunk \in Chunks : StreamChunk(chunk)
    \/ StreamEnd
    \/ WriteMarkdownDone

Spec == Init /\ [][Next]_vars

(***************************************************************************)
(* The DOCX path with a collaborator that calls the convertImage hook for  *)
(* the next image while earlier invocations are still at an await; the    *)
(* run up to the call of the model.                                        *)
(***************************************************************************)
DocxInputs == {"in/letter.docx"}

InitOverlap == InitWith(DocxInputs, {TRUE}, OptionsValues) /\ cli = NoCli

NextOverlap ==
    \/ Start
    \/ ReadFileDone
    \/ AwaitRejects
    \/ ExtractRawTextDone
    \/ \E i \in 1..Len(hooks) : HookStart(i)
    \/ \E i \in 1..Len(hooks) : HookReadDone(i)
    \/ \E i \in 1..Len(hooks) : HookWriteDone(i)
    \/ \E i \in 1..Len(hooks) : HookRejects(i)
    \/ ConvertToHtmlRejects
    \/ ConvertToHtmlDone

SpecOverlap == InitOverlap /\ [][NextOverlap]_vars

(***************************************************************************)
(* A PDF run into an output directory that already holds files, with an    *)
(* output path that may have the name of a saved image.                    *)
(***************************************************************************)
FrameOutputs == {"out/doc.md", "out/image_1.png"}

\* The files there before the run: one with the name of the second saved
\* image, one with another name, one in another directory.
FrameDisk ==
    [p \in {"out/image_2.png", "out/cover.png", "in/image_1.png"} |-> "OLD " \o p]

InitFrame ==
    /\ pc = "start"
    /\ inputPath = "in/report.PDF"
    /\ inputExists = TRUE
    /\ outputPath \in FrameOutputs
    /\ options \in OptionsValues
    /\ respectPages = RespectPagesOf(options)
    /\ other = NoRun
    /\ cli = NoCli
    /\ disk = FrameDisk
    /\ overlap = FALSE
    /\ pdfPages = <<>>
    /\ screenshotPages = <<>> /\ textPages = <<>> /\ imagePages = <<>>
    /\ pageIndex = 0 /\ imageIndex = 0 /\ globalImageIndex = 0
    /\ docxImages = <<>> /\ rawText = "" /\ hooks = <<>>
    /\ savedImages = <<>> /\ pageContents = <<>> /\ userContent = <<>>
    /\ chunks = <<>> /\ markdownContent = "" /\ usedImages = {} /\ deletedCount = 0
    /\ result = NoResult /\ error = Null
    /\ trace = <<>>

NextFrame ==
    \/ Start
    \/ ReadFileDone /\ Len(pdfPages') <= 1
    \/ AwaitRejects
    \/ GetScreenshotDone
    \/ GetTextDone
    \/ GetImageDone
    \/ DestroyDone
    \/ SaveLoop
    \/ WriteImageDone
    \/ \E chunk \in Chunks : StreamChunk(chunk) /\ Len(chunks') <= 1
    \/ StreamEnd
    \/ WriteMarkdownDone

SpecFrame == InitFrame /\ [][NextFrame]_vars

(***************************************************************************)
(* Two runs of convert in one process, with different output directories.  *)
(* A run gives way to the other one at its awaits: every state of a run is *)
(* at an await, and what lies between two awaits is one step.  The runs    *)
(* share the file system; everything else is local to a run.               *)
(***************************************************************************)

\* The state of the run that executes, file system left out.
RunState ==
    [pc |-> pc, inputPath |-> inputPath, inputExists |-> inputExists,
     outputPath |-> outputPath, options |-> options, respectPages |-> respectPages,
     pdfPages |-> pdfPages, screenshotPages |-> screenshotPages, textPages |-> textPages,
     imagePages |-> imagePages, pageIndex |-> pageIndex, imageIndex |-> imageIndex,
     globalImageIndex |-> globalImageIndex, docxImages |-> docxImages, rawText |-> rawText,
     hooks |-> hooks, overlap |-> overlap, savedImages |-> savedImages,
     pageContents |-> pageContents, userContent |-> userContent, chunks |-> chunks,
     markdownContent |-> markdownContent, usedImages |-> usedImages,
     deletedCount |-> deletedCount, result |-> result, error |-> error, trace |-> trace]

\* A run that has just been called.
NewRun(input, exists, output) ==
    [pc |-> "start", inputPath |-> input, inputExists |-> exists,
     outputPath |-> output, options |-> {}, respectPages |-> RespectPagesOf({}),
     pdfPages |-> <<>>, screenshotPages |-> <<>>, textPages |-> <<>>,
     imagePages |-> <<>>, pageIndex |-> 0, imageIndex |-> 0,
     globalImageIndex |-> 0, docxImages |-> <<>>, rawText |-> "",
     hooks |-> <<>>, overlap |-> FALSE, savedImages |-> <<>>,
     pageContents |-> <<>>, userContent |-> <<>>, chunks |-> <<>>,
     markdownContent |-> "", usedImages |-> {},
     deletedCount |-> 0, result |-> NoResult, error |-> Null, trace |-> <<>>]

\* The inputs of the two runs: the first run reads a document or an image
\* that lies in the output directory of the second one.
FirstRunInputs == {"in/report.PDF", "out2/image_1.png"}
FirstRunOutput == "out/doc.md"
SecondRunInput == "in/report.PDF"
SecondRunOutput == "out2/doc.md"

InitTwoRuns ==
    /\ InitWith(FirstRunInputs, {FALSE}, OptionsValues)
    /\ outputPath = FirstRunOutput
    /\ cli = NoCli

\* The second call of convert, while the first run is at an await.
CallSecond ==
    /\ other = NoRun
    /\ other' = RunState
    /\ \E run \in {NewRun(SecondRunInput, TRUE, SecondRunOutput)} :
          /\ pc' = run.pc /\ inputPath' = run.inputPath /\ inputExists' = run.inputExists
          /\ outputPath' = run.outputPath /\ options' = run.options
          /\ respectPages' = run.respectPages /\ pdfPages' = run.pdfPages
          /\ screenshotPages' = run.screenshotPages /\ textPages' = run.textPages
          /\ imagePages' = run.imagePages /\ pageIndex' = run.pageIndex
          /\ imageIndex' = run.imageIndex /\ globalImageIndex' = run.globalImageIndex
          /\ docxImages' = run.docxImages /\ rawText' = run.rawText /\ hooks' = run.hooks
          /\ overlap' = run.overlap /\ savedImages' = run.savedImages
          /\ pageContents' = run.pageContents /\ userContent' = run.userContent
          /\ chunks' = run.chunks /\ markdownContent' = run.markdownContent
          /\ usedImages' = run.usedImages /\ deletedCount' = run.deletedCount
          /\ result' = run.result /\ error' = run.error /\ trace' = run.trace
    /\ UNCHANGED << disk, cli >>

\* The run that executes is at an await and the other one goes on.
SwitchRun ==
    /\ other # NoRun
    /\ other.pc \notin {"done", "rejected"}
    /\ other' = RunState
    /\ pc' = other.pc /\ inputPath' = other.inputPath /\ inputExists' = other.inputExists
    /\ outputPath' = other.outputPath /\ options' = other.options
    /\ respectPages' = other.respectPages /\ pdfPages' = other.pdfPages
    /\ screenshotPages' = other.screenshotPages /\ textPages' = other.textPages
    /\ imagePages' = other.imagePages /\ pageIndex' = other.pageIndex
    /\ imageIndex' = other.imageIndex /\ globalImageIndex' = other.globalImageIndex
    /\ docxImages' = other.docxImages /\ rawText' = other.rawText /\ hooks' = other.hooks
    /\ overlap' = other.overlap /\ savedImages' = other.savedImages
    /\ pageContents' = other.pageContents /\ userContent' = other.userContent
    /\ chunks' = other.chunks /\ markdownContent' = other.markdownContent
    /\ usedImages' = other.usedImages /\ deletedCount' = other.deletedCount
    /\ result' = other.result /\ error' = other.error /\ trace' = other.trace
    /\ UNCHANGED << disk, cli >>

\* The documents of the two runs have one page, the parsing collaborator
\* reports every page, and the model answers with one chunk at most.
NextTwoRuns ==
    \/ CallSecond
    \/ SwitchRun
    \/ Start
    \/ ReadFileDone /\ Len(pdfPages') <= 1
    \/ GetScreenshotDone /\ Len(screenshotPages') = Len(pdfPages)
    \/ GetTextDone /\ Len(textPages') = Len(pdfPages)
    \/ GetImageDone /\ Len(imagePages') = Len(pdfPages)
    \/ DestroyDone
    \/ SaveLoop
    \/ WriteImageDone
    \/ \E chunk \in Chunks : StreamChunk(chunk) /\ Len(chunks') <= 1
    \/ StreamEnd
    \/ WriteMarkdownDone

SpecTwoRuns == InitTwoRuns /\ [][NextTwoRuns]_vars

(***************************************************************************)
(* The command line: main of src/src/cli.ts (lines 147-316).               *)
(***************************************************************************)
KeyName == "GOOGLE_GENERATIVE_AI_API_KEY"

\* s has the text sub at index i.
HasAt(s, i, sub) == i + Len(sub) - 1 <= Len(s) /\ SubSeq(s, i, i + Len(sub) - 1) = sub

\* String.prototype.startsWith.
StartsWith(s, prefix) == HasAt(s, 1, prefix)

IsWhiteSpace(c) == c \in {" ", "\t", "\n", "\r"}

\* String.prototype.trim.
RECURSIVE TrimStart(_)
TrimStart(s) ==
    IF Len(s) > 0 /\ IsWhiteSpace(Head(s)) THEN TrimStart(Tail(s)) ELSE s

RECURSIVE TrimEnd(_)
TrimEnd(s) ==
    IF Len(s) > 0 /\ IsWhiteSpace(SubSeq(s, Len(s), Len(s)))
    THEN TrimEnd(SubSeq(s, 1, Len(s) - 1)) ELSE s

Trim(s) == TrimEnd(TrimStart(s))

\* The end of the run of characters other than line terminators from index i.
RECURSIVE LineEnd(_, _)
LineEnd(s, i) ==
    IF i > Len(s) \/ IsLineTerminator(SubSeq(s, i, i)) THEN i - 1 ELSE LineEnd(s, i + 1)

\* content.match(/GOOGLE_GENERATIVE_AI_API_KEY=(.+)/)?.[1], from index i on:
\* the first place where the name and "=" are followed by a character of the
\* same line, and the rest of that line; Undefined without such a place.
RECURSIVE KeyMatchFrom(_, _)
KeyMatchFrom(content, i) ==
    LET from == i + Len(KeyName) + 1
    IN  IF from > Len(content) THEN Undefined
        ELSE IF HasAt(content, i, KeyName \o "=") /\ LineEnd(content, from) >= from
        THEN SubSeq(content, from, LineEnd(content, from))
        ELSE KeyMatchFrom(content, i + 1)

KeyMatch(content) == KeyMatchFrom(content, 1)

\* A value of JavaScript that counts as false in a condition.
Falsy(v) == v \in {Undefined, ""}

\* The environment variable, the two configuration files (Undefined: there
\* is no such file), the files of the working directory and the arguments.
EnvValues == {Undefined, "", "K-env"}
LocalEnvFiles ==
    {Undefined, KeyName \o "=K-local\n", "OTHER=1\n", KeyName \o "=\nOTHER=1\n",
     KeyName \o "= \n"}
GlobalEnvFiles == {Undefined, "# key\n" \o KeyName \o "= K-global \n", "OTHER=1\n"}
ExistingFiles == {"document.pdf", "docs/report.DOCX", "in/scan.jpeg", "notes.txt"}
InputArguments == ExistingFiles \cup {"missing.pdf"}
OutputArguments == {"", "  ", "custom/out.md", " out.md"}
ArgumentLists ==
    { <<>>, << "-h" >>, << "document.pdf", "--version" >>, << "setup" >>, << "-x" >> }
    \cup { << input >> : input \in InputArguments }
    \cup { << input, output >> : input \in InputArguments, output \in OutputArguments }

\* What the user may type at the prompts of the interactive mode.
InputAnswers == {"document.pdf", " document.pdf ", "docs/report.DOCX", "in/scan.jpeg", "missing.pdf", ""}
OutputAnswers == {"", "custom/out.md"}

Unresolved == "<unresolved>"
NoExit == 0 - 1

KeyNotFoundMessage ==
    "Google AI API key not found.\n\nRun setup to configure your API key:\n  f2md setup\n\nOr set the GOOGLE_GENERATIVE_AI_API_KEY environment variable."

runVars == << pc, inputPath, inputExists, outputPath, options, respectPages, other, disk,
              pdfVars, globalImageIndex, docxVars, overlap, savedImages, pageContents,
              userContent, markdownContent, cleanupVars, result, error, trace >>

InitCli ==
    /\ InitWith({"document.pdf"}, {FALSE}, OptionsValues)
    /\ inputExists = TRUE
    /\ \E env \in EnvValues, local \in LocalEnvFiles, global \in GlobalEnvFiles,
          args \in ArgumentLists :
          cli = [pc |-> "main", args |-> args, env |-> env, envAtStart |-> env,
                 localEnv |-> local, globalEnv |-> global,
                 apiKey |-> Unresolved, inputFilePath |-> Undefined,
                 outputPath |-> Undefined, suggestedOutput |-> Undefined,
                 convertCalls |-> <<>>, message |-> "", exitCode |-> NoExit]

\* process.exit(code), after p.cancel(message) where there is one.
Exit(c, code, message) == [c EXCEPT !.pc = "exited", !.exitCode = code, !.message = message]

\* String.prototype.includes.
Includes(s, sub) == \E i \in 1..Len(s) : HasAt(s, i, sub)

\* node:path basename(p, ext): the basename without the suffix ext.
BasenameWithout(p, ext) ==
    LET b == Basename(p)
    IN  IF Len(ext) > 0 /\ Len(b) > Len(ext) /\ HasAt(b, Len(b) - Len(ext) + 1, ext)
        THEN SubSeq(b, 1, Len(b) - Len(ext)) ELSE b

\* Mutant of DefaultOutputPath: the extension of the input stays.
DefaultOutputPathKeepingExtension(input) ==
    Join(Dirname(input), Basename(input) \o ".md")

\* Lines 247-249 and 281-283: the output path next to the input.
DefaultOutputPath(input) ==
    Join(Dirname(input), BasenameWithout(input, Extname(input)) \o ".md")

\* Mutant of Validate: the image extensions convert supports are accepted.
ValidateAcceptingImages(c) ==
    LET input == c.inputFilePath
        ext == ToLowerCase(Extname(input))
    IN  IF input \notin ExistingFiles
        THEN Exit(c, 1, "File not found: " \o input)
        ELSE IF ext \notin supportedExtensions
        THEN Exit(c, 1, "Unsupported file type: " \o ext
                          \o ". Only PDF and DOCX files are supported.")
        ELSE LET out == IF Falsy(c.outputPath) \/ Len(Trim(c.outputPath)) = 0
                        THEN DefaultOutputPath(input) ELSE c.outputPath
             IN  [c EXCEPT !.pc = "convert", !.outputPath = out,
                           !.convertCalls = Append(@, [inputFilePath |-> input,
                                                       outputPath |-> out])]

\* Lines 265-295: the checks of the input, the default of the output path and
\* the call of convert.
Validate(c) ==
    LET input == c.inputFilePath
        ext == ToLowerCase(Extname(input))
    IN  IF input \notin ExistingFiles
        THEN Exit(c, 1, "File not found: " \o input)
        ELSE IF ext \notin {".pdf", ".docx"}
        THEN Exit(c, 1, "Unsupported file type: " \o ext
                          \o ". Only PDF and DOCX files are supported.")
        ELSE LET out == IF Falsy(c.outputPath) \/ Len(Trim(c.outputPath)) = 0
                        THEN DefaultOutputPath(input) ELSE c.outputPath
             IN  [c EXCEPT !.pc = "convert", !.outputPath = out,
                           !.convertCalls = Append(@, [inputFilePath |-> input,
                                                       outputPath |-> out])]

\* Lines 196-263, getApiKey having returned c.apiKey: without a key main
\* exits; with one it takes the paths from the arguments or asks for them.
AfterKey(c) ==
    IF Falsy(c.apiKey) THEN Exit(c, 1, KeyNotFoundMessage)
    ELSE LET c1 == [c EXCEPT !.env = c.apiKey]
         IN  IF Len(c.args) > 0 /\ ~Falsy(c.args[1]) /\ ~StartsWith(c.args[1], "-")
             THEN Validate([c1 EXCEPT !.inputFilePath = c.args[1],
                                      !.outputPath = IF Len(c.args) >= 2 THEN c.args[2]
                                                     ELSE Undefined])
             ELSE [c1 EXCEPT !.pc = "inputPrompt"]

\* Mutant of FirstConfigFile: the file of the home directory comes first.
FirstConfigFileGlobal(c) ==
    IF c.globalEnv # Undefined THEN "readGlobal"
    ELSE IF c.localEnv # Undefined THEN "readLocal"
    ELSE "none"

\* Lines 153-165: the first configuration file that exists.
FirstConfigFile(c) ==
    IF c.localEnv # Undefined THEN "readLocal"
    ELSE IF c.globalEnv # Undefined THEN "readGlobal"
    ELSE "none"

HasArgument(c, flags) == \E k \in 1..Len(c.args) : c.args[k] \in flags

\* Lines 176-196 and 147-156: the flags, the setup command, and getApiKey up
\* to its first await.
MainStart ==
    /\ cli.pc = "main"
    /\ cli' =
          IF HasArgument(cli, {"-h", "--help"}) THEN Exit(cli, 0, "")
          ELSE IF HasArgument(cli, {"-v", "--version"}) THEN Exit(cli, 0, "")
          ELSE IF Len(cli.args) > 0 /\ cli.args[1] = "setup" THEN [cli EXCEPT !.pc = "setup"]
          ELSE IF ~Falsy(cli.env) THEN AfterKey([cli EXCEPT !.apiKey = cli.env])
          ELSE IF FirstConfigFile(cli) = "none"
          THEN AfterKey([cli EXCEPT !.apiKey = Undefined])
          ELSE [cli EXCEPT !.pc = FirstConfigFile(cli)]
    /\ UNCHANGED runVars

\* Lines 156-165: the local file is read.
ReadLocalDone ==
    /\ cli.pc = "readLocal"
    /\ cli' =
          IF KeyMatch(cli.localEnv) # Undefined
          THEN AfterKey([cli EXCEPT !.apiKey = Trim(KeyMatch(cli.localEnv))])
          ELSE IF cli.globalEnv # Undefined THEN [cli EXCEPT !.pc = "readGlobal"]
          ELSE AfterKey([cli EXCEPT !.apiKey = Undefined])
    /\ UNCHANGED runVars

\* Lines 166-173: the file of the home directory is read.
ReadGlobalDone ==
    /\ cli.pc = "readGlobal"
    /\ cli' =
          IF KeyMatch(cli.globalEnv) # Undefined
          THEN AfterKey([cli EXCEPT !.apiKey = Trim(KeyMatch(cli.globalEnv))])
          ELSE AfterKey([cli EXCEPT !.apiKey = Undefined])
    /\ UNCHANGED runVars

\* readFile rejects in getApiKey: main has no catch, the process ends with
\* the unhandled rejection.
ReadEnvFileRejects ==
    /\ cli.pc \in {"readLocal", "readGlobal"}
    /\ cli' = [cli EXCEPT !.pc = "crashed", !.exitCode = 1, !.message = "Error: readFile"]
    /\ UNCHANGED runVars

\* Lines 222-249: the validate function accepts the answer.
InputAccepted(answer) ==
    /\ ~Falsy(answer) /\ Len(Trim(answer)) > 0
    /\ Trim(answer) \in ExistingFiles
    /\ ToLowerCase(Extname(Trim(answer))) \in {".pdf", ".docx"}

InputAnswered ==
    /\ cli.pc = "inputPrompt"
    /\ \E answer \in InputAnswers :
          /\ InputAccepted(answer)
          /\ cli' = [cli EXCEPT !.pc = "outputPrompt", !.inputFilePath = answer,
                                !.suggestedOutput = DefaultOutputPath(answer)]
    /\ UNCHANGED runVars

\* Lines 251-295: the answer to the second prompt; empty, it is the default.
OutputAnswered ==
    /\ cli.pc = "outputPrompt"
    /\ \E answer \in OutputAnswers :
          LET outputResult == IF answer = "" THEN cli.suggestedOutput ELSE answer
          IN  cli' = Validate([cli EXCEPT !.outputPath =
                          IF Falsy(outputResult) THEN cli.suggestedOutput ELSE outputResult])
    /\ UNCHANGED runVars

\* Lines 239-242 and 257-260: the prompt is cancelled.
PromptCancelled ==
    /\ cli.pc \in {"inputPrompt", "outputPrompt"}
    /\ cli' = Exit(cli, 0, "Operation cancelled")
    /\ UNCHANGED runVars

\* Lines 297-308: convert resolved.
ConvertResolves ==
    /\ cli.pc = "convert"
    /\ cli' = [cli EXCEPT !.pc = "exited", !.exitCode = 0, !.message = "Done!"]
    /\ UNCHANGED runVars

\* Lines 309-313: convert rejected.
ConvertRejects ==
    /\ cli.pc = "convert"
    /\ cli' = Exit(cli, 1, "Conversion failed")
    /\ UNCHANGED runVars

SetupKeys == {"K-0123456789-0123456789"}

\* Lines 38-145 and 190-193: the setup command with the answers of the user.
RunSetup ==
    /\ cli.pc = "setup"
    /\ \E readOk \in BOOLEAN, confirm \in {"yes", "no"},
          key \in SetupKeys \cup {"<cancel>"}, scope \in {"local", "global", "<cancel>"},
          writeOk \in BOOLEAN :
          LET asks == IF cli.localEnv # Undefined THEN Includes(cli.localEnv, KeyName)
                      ELSE cli.globalEnv # Undefined
              envContent == KeyName \o "=" \o key \o "\n"
          IN  cli' =
                IF cli.localEnv # Undefined /\ ~readOk
                THEN [cli EXCEPT !.pc = "crashed", !.exitCode = 1,
                                 !.message = "Error: readFile"]
                ELSE IF asks /\ confirm = "no" THEN Exit(cli, 0, "Setup cancelled")
                ELSE IF key = "<cancel>" \/ scope = "<cancel>"
                THEN Exit(cli, 0, "Setup cancelled")
                ELSE IF ~writeOk THEN Exit(cli, 1, "Failed to save configuration")
                ELSE IF scope = "global"
                THEN Exit([cli EXCEPT !.globalEnv = envContent], 0, "Setup complete")
                ELSE Exit([cli EXCEPT !.localEnv = envContent], 0, "Setup complete")
    /\ UNCHANGED runVars

NextCli ==
    \/ MainStart
    \/ ReadLocalDone
    \/ ReadGlobalDone
    \/ ReadEnvFileRejects
    \/ InputAnswered
    \/ OutputAnswered
    \/ PromptCancelled
    \/ ConvertResolves
    \/ ConvertRejects
    \/ RunSetup

SpecCli == InitCli /\ [][NextCli]_vars

(* options: the run up to the call of the model, no awaited call failing.  *)
(***************************************************************************)
InitPrompt == InitWith(InputPaths, {FALSE}, ConvertOptions) /\ cli = NoCli

NextPrompt ==
    \/ Start
    \/ ReadFileDone
    \/ GetScreenshotDone
    \/ GetTextDone
    \/ GetImageDone
    \/ DestroyDone
    \/ SaveLoop
    \/ WriteImageDone
    \/ ExtractRawTextDone
    \/ \E i \in 1..Len(hooks) : HookStart(i)
    \/ \E i \in 1..Len(hooks) : HookReadDone(i)
    \/ \E i \in 1..Len(hooks) : HookWriteDone(i)
    \/ \E i \in 1..Len(hooks) : HookRejects(i)
    \/ ConvertToHtmlDone

SpecPrompt == InitPrompt /\ [][NextPrompt]_vars

(***************************************************************************)
(* The clean-up step applied again (lines 264-288 run a second time on the *)
(* same Markdown text, the same savedImages and the files left on disk).   *)
(***************************************************************************)
ReconcileNames == {"image_1.png", "image_2.tiff"}

\* Markdown of the second-pass inputs: also a relative path, an extension the
\* regex does not know, a reference that is not closed and a line break
\* inside the brackets.
ReconcileChunks ==
    Chunks \cup { "![y](./image_1.png)", "![z](image_2.tiff)", "![a](b ", "![a\n" }
MaxReconcileImages == 2

RECURSIVE Concat(_)
Concat(cs) == IF Len(cs) = 0 THEN "" ELSE cs[1] \o Concat(Tail(cs))

ReconcileSavedLists ==
    { [k \in 1..Len(names) |-> [pageNumber |-> 1, imageIndex |-> k - 1, filename |-> names[k]]] :
        names \in SeqsUpTo(ReconcileNames, MaxReconcileImages) }

\* Any Markdown text, any savedImages, any subset of their files on disk; the
\* run stands before the write of the Markdown file.
InitReconcile ==
    /\ pc = "writeMarkdown"
    /\ inputPath = "in/report.PDF"
    /\ inputExists = TRUE
    /\ outputPath \in OutputPaths
    /\ options \in OptionsValues
    /\ respectPages = RespectPagesOf(options)
    /\ other = NoRun
    /\ cli = NoCli
    /\ overlap = FALSE
    /\ savedImages \in ReconcileSavedLists
    /\ \E present \in SUBSET { Join(outputDir, savedImages[k].filename) : k \in 1..Len(savedImages) } :
          disk = [p \in present |-> "IMG"]
    /\ chunks \in SeqsUpTo(ReconcileChunks, MaxChunks)
    /\ markdownContent = Concat(chunks)
    /\ pdfPages = <<>>
    /\ screenshotPages = <<>> /\ textPages = <<>> /\ imagePages = <<>>
    /\ pageIndex = 0 /\ imageIndex = 0 /\ globalImageIndex = Len(savedImages)
    /\ docxImages = <<>> /\ rawText = "" /\ hooks = <<>>
    /\ pageContents = <<>> /\ userContent = <<>>
    /\ usedImages = {} /\ deletedCount = 0
    /\ result = NoResult /\ error = Null
    /\ trace = <<>>

SecondPass == \E k \in 1..Len(trace) : trace[k].op = "reconcile"

\* Lines 264-294 once more, after the first pass is over.
Reapply ==
    /\ pc = "done"
    /\ ~SecondPass
    /\ Reconcile(disk, Append(trace, Event("reconcile", "", TRUE)))
    /\ UNCHANGED << inputVars, pdfVars, globalImageIndex, docxVars, savedImages,
                    pageContents, userContent, chunks, markdownContent, error >>

NextReconcile ==
    \/ WriteMarkdownDone
    \/ Reapply

SpecReconcile == InitReconcile /\ [][NextReconcile]_vars

(***************************************************************************)
(* Vocabulary of the properties.                                           *)
(***************************************************************************)
\* The run called op on arg and it succeeded (ok) or failed (~ok).
Happened(op, arg, ok) == \E k \in 1..Len(trace) : trace[k] = Event(op, arg, ok)

Did(op) == \E k \in 1..Len(trace) : trace[k].op = op

Deleted(path) == Happened("unlinkSync", path, TRUE)

DeletionFailed == \E k \in 1..Len(trace) : trace[k].op = "unlinkSync" /\ ~trace[k].ok

DeletionsDone == Cardinality({ k \in 1..Len(trace) : trace[k].op = "unlinkSync" /\ trace[k].ok })

SavedNames == { savedImages[k].filename : k \in 1..Len(savedImages) }

SavedPath(name) == Join(outputDir, name)

\* The prompt has been assembled: extraction is over.
Extracted == Did("streamText")

Terminated == pc \in {"done", "rejected"}

IsSpace(c) == c \in {" ", "\n", "\r", "\t"}

\* The targets of the Markdown image references ![alt](target) of md: alt
\* without brackets, target without parentheses or white space.
RefTargets(md) ==
    { SubSeq(md, a, b) : <<a, b>> \in
        { ab \in (1..Len(md)) \X (1..Len(md)) :
            /\ ab[1] <= ab[2]
            /\ ab[1] >= 5
            /\ Char(md, ab[1] - 1) = "(" /\ Char(md, ab[1] - 2) = "]"
            /\ Char(md, ab[2] + 1) = ")"
            /\ \A k \in ab[1]..ab[2] : Char(md, k) \notin {"(", ")"} /\ ~IsSpace(Char(md, k))
            /\ \E s \in 1..(ab[1] - 4) :
                  /\ Char(md, s) = "!" /\ Char(md, s + 1) = "["
                  /\ \A k \in (s + 2)..(ab[1] - 3) : Char(md, k) \notin {"[", "]"} } }

\* The same file name, up to the case of the letters of the extension.
SameNameUpToExtensionCase(f, t) ==
    LET df == LastIndexOf(f, ".")
        dt == LastIndexOf(t, ".")
    IN  /\ df > 0 /\ dt > 0
        /\ SubSeq(f, 1, df) = SubSeq(t, 1, dt)
        /\ ToLowerCase(SubSeq(f, df + 1, Len(f))) = ToLowerCase(SubSeq(t, dt + 1, Len(t)))

\* The number n of image_<n>.<ext>, -1 for a name of another form.
NumericSuffix(name) ==
    LET d == LastIndexOf(name, ".")
    IN  IF d > 7 /\ SubSeq(name, 1, 6) = "image_" /\ IsDigits(SubSeq(name, 7, d - 1))
        THEN ParseNat(SubSeq(name, 7, d - 1))
        ELSE -1

(***************************************************************************)
(* Properties.                                                             *)
(***************************************************************************)
\* C1: the clean-up never deletes a saved image whose file name is the target
\* of a Markdown image reference of the generated Markdown, the extension
\* compared without regard to case, whatever surrounds the reference.
C1_ReferencedImageNeverDeleted ==
    \A name \in SavedNames :
        Deleted(SavedPath(name)) =>
            ~\E t \in RefTargets(markdownContent) : SameNameUpToExtensionCase(name, t)

\* C2: after a run that resolved and in which no deletion failed, the saved
\* image files left on disk are exactly those whose name is in the set of
\* names captured from the Markdown image references, and imagesDeleted is
\* the number of saved images whose name is not in that set.
C2_UnreferencedImagesDeleted ==
    (pc = "done" /\ ~DeletionFailed) =>
        /\ { name \in SavedNames : SavedPath(name) \in DOMAIN disk }
              = SavedNames \cap UsedImages(markdownContent)
        /\ result.imagesDeleted =
              Cardinality({ k \in 1..Len(savedImages) :
                              savedImages[k].filename \notin UsedImages(markdownContent) })

C2_Witness ==
    /\ pc = "done"
    /\ ~DeletionFailed
    /\ result.imagesSaved = 1
    /\ result.imagesDeleted = 1
    /\ \A name \in SavedNames : SavedPath(name) \notin DOMAIN disk

\* The second pass deleted nothing: no deletion since it began, count 0.
FirstPassEnd == CHOOSE k \in 1..Len(trace) : trace[k].op = "reconcile"

SecondPassDeletedNothing ==
    /\ deletedCount = 0
    /\ \A k \in (FirstPassEnd + 1)..Len(trace) : ~(trace[k].op = "unlinkSync" /\ trace[k].ok)
    /\ pc = "done" => result.imagesDeleted = 0

FirstPassDeletionFailed ==
    \E k \in 1..(FirstPassEnd - 1) : trace[k].op = "unlinkSync" /\ ~trace[k].ok

C4_DeletionFailureNotFatal ==
    /\ DeletionFailed => (pc = "done" /\ error = Null)
    /\ pc = "done" =>
          /\ result.imagesSaved = Len(savedImages)
          /\ result.imagesDeleted = DeletionsDone
          /\ 0 <= result.imagesDeleted /\ result.imagesDeleted <= result.imagesSaved
          /\ \A name \in SavedNames :
                name \notin usedImages => Did("unlinkSync") /\
                    \E k \in 1..Len(trace) :
                        trace[k].op = "unlinkSync" /\ trace[k].arg = SavedPath(name)

C4_Witness ==
    /\ pc = "done"
    /\ result.imagesSaved = 2
    /\ result.imagesDeleted = 1
    /\ \E k \in 1..Len(trace) : \E m \in (k + 1)..Len(trace) :
          /\ trace[k].op = "unlinkSync" /\ ~trace[k].ok
          /\ trace[m].op = "unlinkSync" /\ trace[m].ok

\* C5: within one run the file names of savedImages are image_<n>.<ext>,
\* pairwise distinct, with n strictly increasing in the order of the
\* sequence, from 1 on, across pages.
C5_FilenamesDistinctAndIncreasing ==
    /\ \A i \in 1..Len(savedImages) : NumericSuffix(savedImages[i].filename) >= 1
    /\ Len(savedImages) > 0 => NumericSuffix(savedImages[1].filename) = 1
    /\ \A i \in 1..Len(savedImages) : \A j \in (i + 1)..Len(savedImages) :
          /\ savedImages[i].filename # savedImages[j].filename
          /\ NumericSuffix(savedImages[i].filename) < NumericSuffix(savedImages[j].filename)

C5_Witness ==
    /\ fileExtension = ".pdf"
    /\ Len(savedImages) = 3
    /\ savedImages[1].pageNumber = 1
    /\ savedImages[2].pageNumber = 1
    /\ savedImages[2].imageIndex = 2
    /\ savedImages[3].pageNumber = 2
    /\ savedImages[3].imageIndex = 0

PageNumbersFromOne ==
    \A i \in 1..Len(pageContents) : pageContents[i].pageNumber = i

\* C6 as claimed: for a PDF of N pages the page sequence has N entries,
\* numbered 1..N in order, whatever the lengths of the three arrays of the
\* parsing collaborator.
C6_OnePagePerDocumentPage ==
    (fileExtension = ".pdf" /\ Extracted) =>
        (Len(pageContents) = Len(pdfPages) /\ PageNumbersFromOne)

\* C6 as amended: for a PDF the page sequence has as many entries as the
\* screenshot array of the parsing collaborator, numbered from 1 in order,
\* whatever the lengths of the text and embedded-image arrays.
C6_OnePagePerScreenshot ==
    (fileExtension = ".pdf" /\ Extracted) =>
        (Len(pageContents) = Len(screenshotPages) /\ PageNumbersFromOne)

C6_Witness ==
    /\ fileExtension = ".pdf"
    /\ Extracted
    /\ Len(pageContents) = 2
    /\ Len(textPages) = 0
    /\ Len(imagePages) = 1

\* C7: for a DOCX and for a bare image there is exactly one page entry, with
\* pageNumber 1; for a bare image it has no text and no image file names and
\* nothing is saved, for a DOCX it has no page image.
C7_SinglePage ==
    (fileExtension = ".docx" \/ isImageFile) =>
        /\ Len(pageContents) <= 1
        /\ Extracted => (Len(pageContents) = 1 /\ pageContents[1].pageNumber = 1)
        /\ (isImageFile /\ Extracted) =>
              /\ pageContents[1].text = ""
              /\ pageContents[1].imageFilenames = <<>>
        /\ isImageFile => savedImages = <<>>
        /\ (fileExtension = ".docx" /\ Extracted) => pageContents[1].imageBase64 = Null

C7_Witness ==
    /\ fileExtension = ".docx"
    /\ Extracted
    /\ Len(savedImages) = 2
    /\ Len(pageContents) = 1

NothingWritten == disk = <<>> /\ ~Did("writeFile")

\* C8: for an existing input whose extension is not supported the run ends
\* with the unsupported-file-type error, no file written and the model not
\* called.
C8_UnsupportedRejectedBeforeWrites ==
    (inputExists /\ fileExtension \notin supportedExtensions /\ Terminated) =>
        /\ pc = "rejected"
        /\ error = UnsupportedFileType(fileExtension)
        /\ NothingWritten
        /\ ~Did("streamText")

\* C9: when the run fails with the unsupported-file-type error, the only
\* operation on the file system before it is the existence check of the input.
C9_OnlyExistenceCheckBeforeUnsupported ==
    (pc = "rejected" /\ error = UnsupportedFileType(fileExtension)) =>
        trace = << Event("existsSync", inputPath, TRUE) >>

\* C10: when the input path does not exist the run is rejected with the
\* file-not-found error, whatever the extension, and nothing is written.
C10_MissingInputRejected ==
    (~inputExists /\ pc # "start") =>
        /\ pc = "rejected"
        /\ error = "File not found: " \o inputPath
        /\ NothingWritten
        /\ trace = << Event("existsSync", inputPath, FALSE) >>

C10_Witness ==
    /\ ~inputExists
    /\ pc = "rejected"
    /\ fileExtension \notin supportedExtensions

\* The positions of the trace at which op was called.
Calls(op) == { k \in 1..Len(trace) : trace[k].op = op }

\* The positions of the trace at which the Markdown file was written, and
\* those at which an image file was.
MarkdownWrites == { k \in Calls("writeFile") : trace[k].arg = outputPath }
ImageWrites == { k \in Calls("writeFile") : trace[k].arg # outputPath }

StreamCompleted(k) == \E j \in 1..(k - 1) : trace[j] = Event("textStream", "", TRUE)

\* C11: the Markdown file is written only after the model stream has
\* completed without error; every deletion, successful or failed, comes after
\* the write of the Markdown file; a run that fails ends without a Markdown
\* file.
C11_MarkdownAfterStreamDeletionsAfterMarkdown ==
    /\ \A k \in MarkdownWrites :
          /\ StreamCompleted(k)
          /\ \A j \in 1..(k - 1) : ~(trace[j].op = "stream" /\ ~trace[j].ok)
    /\ \A k \in Calls("unlinkSync") : \E j \in MarkdownWrites : j < k
    /\ pc = "rejected" => (MarkdownWrites = {} /\ outputPath \notin DOMAIN disk)
    /\ outputPath \in DOMAIN disk => MarkdownWrites # {}

C11_Witness ==
    /\ pc = "done"
    /\ DeletionFailed
    /\ DeletionsDone = 1
    /\ outputPath \in DOMAIN disk

\* The embedded images the extraction has to save: for a PDF the images with
\* data of the embedded-image array, for a DOCX the images whose hook did not
\* fail.
ImagesToSave ==
    IF fileExtension = ".pdf"
    THEN UNION { { << p, i >> : i \in { m \in 1..Len(imagePages[p].images) :
                                          imagePages[p].images[m].data # Undefined } } :
                 p \in { q \in 1..Len(imagePages) : imagePages[q].hasImages } }
    ELSE { << 1, i >> : i \in { h \in 1..Len(hooks) : hooks[h].state = "returned" } }

\* The stages in the order of the trace: no call of a stage before the last
\* call of the stage before it.
Before(ops1, ops2) ==
    \A j \in 1..Len(trace) : \A k \in 1..Len(trace) :
        (trace[j].op \in ops1 /\ trace[k].op \in ops2) => j < k

ExtractionOps ==
    { "new PDFParse", "getScreenshot", "getText", "getImage", "destroy",
      "extractRawText", "convertImage", "image.read", "convertToHtml" }

\* C12: when the model is invoked every embedded-image file of the run is on
\* disk, no hook is still running, and extraction, model call, write of the
\* Markdown file and clean-up follow one another.
C12_ImagesSavedBeforeModelCall ==
    /\ \A k \in Calls("streamText") : \A j \in ImageWrites : j < k
    /\ Did("streamText") =>
          /\ Cardinality(ImagesToSave) = Len(savedImages)
          /\ \A i \in 1..Len(hooks) : hooks[i].state \in {"returned", "threw"}
          /\ \A name \in SavedNames :
                SavedPath(name) \in DOMAIN disk \/ Deleted(SavedPath(name))
    /\ Before(ExtractionOps, {"streamText"})
    /\ Before({"streamText"}, {"textStream", "stream"})
    /\ Before({"textStream"}, {"unlinkSync"})
    /\ \A k \in MarkdownWrites : \A j \in Calls("textStream") : j < k
    /\ \A k \in MarkdownWrites : \A j \in Calls("unlinkSync") : k < j

C12_Witness ==
    /\ pc = "done"
    /\ fileExtension = ".docx"
    /\ Len(savedImages) = 2
    /\ Deleted(SavedPath("image_2.jpeg"))

C14_ModelCalledAtMostOnce ==
    /\ Cardinality(Calls("streamText")) <= 1
    /\ \A k \in Calls("stream") :
          /\ k = Len(trace)
          /\ pc = "rejected"
          /\ error = "Error: stream"
          /\ result = NoResult

C14_Witness ==
    /\ pc = "rejected"
    /\ error = "Error: stream"
    /\ Len(chunks) = 1
    /\ Cardinality(Calls("streamText")) = 1

\* The kind of the input, from its extension.
Kind ==
    IF fileExtension \in imageExtensions THEN "image"
    ELSE IF fileExtension = ".docx" THEN "docx"
    ELSE "pdf"

\* t holds the text sub.
Contains(t, sub) ==
    \E k \in 1..(Len(t) - Len(sub) + 1) : SubSeq(t, k, k + Len(sub) - 1) = sub

\* C18: the instruction text is one of four fixed templates, given by the
\* kind and respectPages alone: one for an image and one for a DOCX, whatever
\* respectPages is, and for a PDF one for respectPages true and another one
\* for false; respectPages is false when the option is omitted.
C18_InstructionFromKindAndRespectPages ==
    /\ options = {} => ~respectPages
    /\ << "respectPages", TRUE >> \in options => respectPages
    /\ << "respectPages", FALSE >> \in options => ~respectPages
    /\ PdfPagesInstruction # PdfMergedInstruction
    /\ Extracted =>
          /\ Len(userContent) >= 1
          /\ userContent[1].type = "text"
          /\ Kind = "image" => userContent[1].text = ImageInstruction
          /\ Kind = "docx" => userContent[1].text = DocxInstruction
          /\ (Kind = "pdf" /\ respectPages) => userContent[1].text = PdfPagesInstruction
          /\ (Kind = "pdf" /\ ~respectPages) => userContent[1].text = PdfMergedInstruction

C18_Witness ==
    /\ Extracted
    /\ Kind = "pdf"
    /\ options = {}
    /\ userContent[1].text = PdfMergedInstruction

\* C19: for a PDF with respectPages false the instruction text forbids
\* separators between pages and nowhere asks for them; with respectPages true
\* it says that each page comes with a screenshot and that the screenshot is
\* to be used.
C19_PdfInstructionAndPageSeparators ==
    (Extracted /\ Kind = "pdf") =>
        LET t == userContent[1].text
        IN  IF respectPages
            THEN /\ Contains(t, "For each page, I will provide the extracted text and a screenshot")
                 /\ Contains(t, "Use the screenshot")
            ELSE /\ Contains(t, "Do NOT insert horizontal rules (---) between pages")
                 /\ \A k \in 8..(Len(t) - 5) :
                       SubSeq(t, k, k + 5) = "insert" => SubSeq(t, k - 7, k - 1) = "Do NOT "
                 /\ ~Contains(t, "separator")
                 /\ ~Contains(t, "For each page")

C19_Witness ==
    /\ Extracted
    /\ Kind = "pdf"
    /\ respectPages
    /\ Contains(userContent[1].text, "Use the screenshot")

\* The types of the blocks the pages ask for: a text block unless the input
\* is an image, then an image block when the page has an imageBase64.
RECURSIVE PageBlockTypes(_)
PageBlockTypes(pages) ==
    IF Len(pages) = 0 THEN <<>>
    ELSE (IF Kind # "image" THEN << "text" >> ELSE <<>>)
         \o (IF pages[1].imageBase64 \notin {Null, ""} THEN << "image" >> ELSE <<>>)
         \o PageBlockTypes(Tail(pages))

\* The blocks of userContent of the given type, the instruction left out.
BlocksOfType(type) ==
    LET F[k \in 1..Len(userContent)] ==
            IF k = 1 THEN <<>>
            ELSE IF userContent[k].type = type THEN Append(F[k - 1], userContent[k])
            ELSE F[k - 1]
    IN  F[Len(userContent)]

\* C20: the user message is the instruction block, then for each page in
\* pageNumber order at most one text block followed by at most one image
\* block: the text block is there for PDF and DOCX and not for an image, the
\* image block exactly when the page has an imageBase64.
C20_UserMessageBlocks ==
    Extracted =>
        /\ PageNumbersFromOne
        /\ [k \in 1..Len(userContent) |-> userContent[k].type]
              = << "text" >> \o PageBlockTypes(pageContents)
        /\ LET images == BlocksOfType("image")
               withImage == { i \in 1..Len(pageContents) :
                                pageContents[i].imageBase64 \notin {Null, ""} }
           IN  /\ Len(images) = Cardinality(withImage)
               /\ \A i \in withImage :
                     images[Cardinality({ j \in withImage : j <= i })].image
                         = pageContents[i].imageBase64
        /\ LET texts == BlocksOfType("text")
           IN  Kind # "image" =>
                 /\ Len(texts) = Len(pageContents)
                 /\ \A i \in 1..Len(texts) :
                       Contains(texts[i].text, "--- Page " \o ToString(i) \o " ---")

C20_Witness ==
    /\ Extracted
    /\ Kind = "pdf"
    /\ Len(pageContents) = 2
    /\ Len(userContent) = 4
    /\ userContent[3].type = "text"
    /\ userContent[4].type = "image"

\* The two runs, the one that executes and the suspended one.
BothRuns == { RunState } \cup (IF other.pc = "none" THEN {} ELSE { other })

\* The paths a run has written and not deleted since, by its own calls.
PathsLeftBy(run) ==
    { run.trace[k].arg : k \in { w \in 1..Len(run.trace) :
        /\ run.trace[w].op = "writeFile" /\ run.trace[w].ok
        /\ ~\E u \in (w + 1)..Len(run.trace) :
              /\ run.trace[u].op = "unlinkSync" /\ run.trace[u].ok
              /\ run.trace[u].arg = run.trace[w].arg } }

\* What a run shows is what it would show alone: its existence check finds
\* the input exactly if the input was there from the start, the files of its
\* output directory are those it has written and not deleted, its Markdown
\* file holds its own text, and its counts are those of its own calls.
AsIfAlone(run) ==
    /\ \A k \in 1..Len(run.trace) :
          (run.trace[k].op = "existsSync" /\ run.trace[k].arg = run.inputPath)
              => run.trace[k].ok = run.inputExists
    /\ ~run.inputExists => run.pc \in {"start", "rejected"}
    /\ { path \in DOMAIN disk : Dirname(path) = Dirname(run.outputPath) } = PathsLeftBy(run)
    /\ run.pc = "done" =>
          /\ run.outputPath \in DOMAIN disk
          /\ disk[run.outputPath] = run.markdownContent
          /\ run.result.imagesSaved =
                Cardinality({ k \in 1..Len(run.trace) :
                    run.trace[k].op = "writeFile" /\ run.trace[k].arg # run.outputPath })
          /\ run.result.imagesDeleted =
                Cardinality({ k \in 1..Len(run.trace) :
                    run.trace[k].op = "unlinkSync" /\ run.trace[k].ok })

DifferentOutputDirectories ==
    \A r1 \in BothRuns : \A r2 \in BothRuns :
        r1.outputPath # r2.outputPath => Dirname(r1.outputPath) # Dirname(r2.outputPath)

\* No run reads its input from the output directory of the other run.
InputsOutsideOutputDirectories ==
    \A r1 \in BothRuns : \A r2 \in BothRuns :
        r1.outputPath # r2.outputPath => Dirname(r1.inputPath) # Dirname(r2.outputPath)

\* C15 as claimed: two concurrent runs with different output directories do
\* not interfere: under every interleaving each run's image files, Markdown
\* file and counts are those it would have alone.
C15_ConcurrentRunsDoNotInterfere ==
    DifferentOutputDirectories => \A run \in BothRuns : AsIfAlone(run)

\* C15 as amended: two concurrent runs with different output directories,
\* neither of which reads its input from the output directory of the other,
\* do not interfere.
C15_ConcurrentRunsWithInputsElsewhereDoNotInterfere ==
    (DifferentOutputDirectories /\ InputsOutsideOutputDirectories)
        => \A run \in BothRuns : AsIfAlone(run)

C15_Witness ==
    /\ InputsOutsideOutputDirectories
    /\ pc = "done" /\ other.pc = "done"
    /\ Len(savedImages) = 2 /\ Len(other.savedImages) = 2
    /\ result.imagesDeleted = 1 /\ other.result.imagesDeleted = 2
    /\ \E j \in 1..Len(trace) : \E k \in 1..Len(other.trace) :
          trace[j].op = "writeFile" /\ other.trace[k].op = "writeFile"


\* ---------------------------------------------------------------------
\* The command line
\* ---------------------------------------------------------------------

\* The places of a configuration file where the name of the variable and "="
\* are followed by a character of the same line.
KeyLines(content) ==
    { i \in 1..Len(content) :
        /\ HasAt(content, i, KeyName \o "=")
        /\ i + Len(KeyName) + 1 <= Len(content)
        /\ ~IsLineTerminator(SubSeq(content, i + Len(KeyName) + 1, i + Len(KeyName) + 1)) }

HasKeyLine(file) == file # Undefined /\ KeyLines(file) # {}

\* The key of the first key line: the rest of the line, without the white
\* space around it.
KeyFoundIn(file) ==
    LET i == CHOOSE k \in KeyLines(file) : \A l \in KeyLines(file) : k <= l
        from == i + Len(KeyName) + 1
        to == CHOOSE e \in from..Len(file) :
                  /\ \A k \in from..e : ~IsLineTerminator(SubSeq(file, k, k))
                  /\ e = Len(file) \/ IsLineTerminator(SubSeq(file, e + 1, e + 1))
    IN  Trim(SubSeq(file, from, to))

\* The credential by the order of the sources: the environment variable, the
\* local file, the file of the home directory.
ExpectedKey(c) ==
    IF c.envAtStart \notin {Undefined, ""} THEN c.envAtStart
    ELSE IF HasKeyLine(c.localEnv) THEN KeyFoundIn(c.localEnv)
    ELSE IF HasKeyLine(c.globalEnv) THEN KeyFoundIn(c.globalEnv)
    ELSE Undefined

\* C16: once main has resolved the credential, it is the environment variable
\* GOOGLE_GENERATIVE_AI_API_KEY if that is set (to a non-empty value), otherwise
\* the key of ./.env if that file exists and has a key line, otherwise the key
\* of ~/.f2md.env; when this gives no key, main has exited with code 1 and the
\* remediation message and convert was never called; convert is only ever
\* called with a key, which is then in the environment.
C16_CredentialResolvedInFixedOrder ==
    /\ cli.pc # "none" /\ cli.apiKey # Unresolved =>
          /\ cli.apiKey = ExpectedKey(cli)
          /\ Falsy(ExpectedKey(cli)) =>
                /\ cli.pc = "exited"
                /\ cli.exitCode = 1
                /\ cli.message = KeyNotFoundMessage
                /\ cli.convertCalls = <<>>
    /\ cli.pc # "none" /\ cli.convertCalls # <<>> =>
          /\ ~Falsy(cli.apiKey)
          /\ cli.apiKey = ExpectedKey(cli)
          /\ cli.env = cli.apiKey

\* The variable is not set, both files have a key line: the key of the local
\* file was taken and convert was called.
C16_Witness ==
    /\ cli.pc = "convert"
    /\ cli.envAtStart = Undefined
    /\ HasKeyLine(cli.localEnv) /\ HasKeyLine(cli.globalEnv)
    /\ cli.apiKey = "K-local"
    /\ cli.env = "K-local"
    /\ cli.convertCalls # <<>>

\* The input path without its extension, followed by ".md".
WithExtensionMd(input) ==
    SubSeq(input, 1, Len(input) - Len(Extname(input))) \o ".md"

\* The command line names the input file.
InputFromArguments(c) ==
    Len(c.args) > 0 /\ ~StartsWith(c.args[1], "-") /\ c.args[1] # "setup"

\* C17: when the command line names an input path, every call of convert has
\* that input path and, where no output path or a blank one is given, the
\* output path <directory of the input>/<basename without extension>.md, and
\* where an output path is given, that path unchanged.
C17_DefaultOutputPathNextToInput ==
    cli.pc # "none" /\ InputFromArguments(cli) =>
        \A k \in 1..Len(cli.convertCalls) :
            /\ cli.convertCalls[k].inputFilePath = cli.args[1]
            /\ cli.convertCalls[k].outputPath =
                  IF Len(cli.args) >= 2 /\ Trim(cli.args[2]) # ""
                  THEN cli.args[2]
                  ELSE WithExtensionMd(cli.args[1])

\* convert was called for docs/report.DOCX with a blank output argument.
C17_Witness ==
    /\ cli.args = << "docs/report.DOCX", "  " >>
    /\ cli.convertCalls = << [inputFilePath |-> "docs/report.DOCX",
                              outputPath |-> "docs/report.md"] >>

\* ---------------------------------------------------------------------
\* The text block of a page
\* ---------------------------------------------------------------------

PageHeader(n) == "--- Page " \o ToString(n) \o " ---"
NoTextPlaceholder == "(No text extracted)"
TrailerLabel == "Extracted images on this page: "

\* The names of a list, in order, with ", " between them.
CommaList(names) ==
    LET F[k \in 0..Len(names)] ==
            IF k = 0 THEN ""
            ELSE IF k = 1 THEN names[1]
            ELSE F[k - 1] \o ", " \o names[k]
    IN  F[Len(names)]

\* t ends with the text sub.
EndsWith(t, sub) == Len(sub) <= Len(t) /\ SubSeq(t, Len(t) - Len(sub) + 1, Len(t)) = sub

\* C21: the text block of a page is the header line "--- Page <n> ---" with n
\* the pageNumber of the page, then the extracted text of the page, or the
\* placeholder "(No text extracted)" exactly when that text is empty, then a
\* trailer that lists the saved image filenames of the page in order exactly
\* when the page has at least one.
C21_PageTextBlockFormat ==
    (Extracted /\ Kind # "image") =>
        LET texts == BlocksOfType("text")
        IN  /\ Len(texts) = Len(pageContents)
            /\ \A i \in 1..Len(pageContents) :
                  LET page == pageContents[i]
                      t == texts[i].text
                      body == IF page.text = "" THEN NoTextPlaceholder ELSE page.text
                      trailer == IF Len(page.imageFilenames) = 0 THEN ""
                                 ELSE "\n\n" \o TrailerLabel \o CommaList(page.imageFilenames)
                  IN  /\ StartsWith(t, "\n" \o PageHeader(page.pageNumber) \o "\n")
                      /\ EndsWith(t, "\n" \o body \o trailer)
                      /\ Len(t) = Len(PageHeader(page.pageNumber)) + Len("Extracted text:")
                                  + Len(body) + Len(trailer) + 3
                      /\ Contains(t, NoTextPlaceholder) <=> page.text = ""
                      /\ Contains(t, TrailerLabel) <=> Len(page.imageFilenames) > 0

\* A PDF of two pages: the first with text and two saved images, the second
\* without text and without images.
C21_Witness ==
    /\ Extracted
    /\ Kind = "pdf"
    /\ Len(pageContents) = 2
    /\ pageContents[1].text # "" /\ Len(pageContents[1].imageFilenames) = 2
    /\ pageContents[2].text = "" /\ Len(pageContents[2].imageFilenames) = 0
    /\ EndsWith(userContent[2].text, TrailerLabel \o "image_1.png, image_2.png")
    /\ Contains(BlocksOfType("text")[2].text, NoTextPlaceholder)

\* ---------------------------------------------------------------------
\* References that do not protect a saved image
\* ---------------------------------------------------------------------

\* The extension of a file name is one the regex knows, in any case.
HasRegexExtension(name) ==
    \E e \in RegexExtensions : ToLowerCase(Extname(name)) = "." \o e

\* The places of md where the target of a Markdown image reference begins:
\* behind "![", an alt text without brackets and "](".
TargetStarts(md) ==
    { a \in 5..Len(md) :
        /\ Char(md, a - 1) = "(" /\ Char(md, a - 2) = "]"
        /\ \E s \in 1..(a - 4) :
              /\ Char(md, s) = "!" /\ Char(md, s + 1) = "["
              /\ \A k \in (s + 2)..(a - 3) : Char(md, k) \notin {"[", "]"} }

\* The targets of the Markdown image references of md: from such a place to
\* the next ")", when there is no "(" and no white space in between.
ReferenceTargets(md) ==
    { SubSeq(md, a, IndexFrom(md, ")", a) - 1) :
        a \in { t \in TargetStarts(md) :
                  /\ IndexFrom(md, ")", t) > t
                  /\ \A k \in t..(IndexFrom(md, ")", t) - 1) :
                        Char(md, k) # "(" /\ ~IsSpace(Char(md, k)) } }

\* A reference with one of the targets refs protects the saved image name:
\* the target is the name itself, and the name has an extension the regex
\* knows.
ProtectedByReference(name, refs) == name \in refs /\ HasRegexExtension(name)

\* The clean-up treated the saved image as unused: its file is gone, or the
\* attempt to delete it failed.
TreatedAsUnused(name) ==
    \/ SavedPath(name) \notin DOMAIN disk
    \/ Happened("unlinkSync", SavedPath(name), FALSE)

\* C22: after the clean-up, a saved image that no reference protects (none
\* has exactly its file name as target, or its extension is outside png, jpg,
\* jpeg, gif, webp) has been treated as unused; in particular a reference with
\* the prefix "./" or with another extension does not keep the file.
C22_OnlyExactReferencesProtect ==
    (pc = "done" /\ savedImages # <<>>) =>
        \A refs \in { ReferenceTargets(markdownContent) } :
            \A name \in SavedNames :
                /\ ~ProtectedByReference(name, refs) => TreatedAsUnused(name)
                /\ (("./" \o name) \in refs /\ name \notin refs) => TreatedAsUnused(name)
                /\ (~HasRegexExtension(name) /\ ~DeletionFailed)
                      => SavedPath(name) \notin DOMAIN disk

\* "![y](./image_1.png)" and "![z](image_2.tiff)" refer to the two saved
\* images, which were both on disk and were both deleted.
C22_Witness ==
    /\ pc = "done"
    /\ ~SecondPass
    /\ SavedNames = {"image_1.png", "image_2.tiff"}
    /\ ReferenceTargets(markdownContent) = {"./image_1.png", "image_2.tiff"}
    /\ Deleted(SavedPath("image_1.png"))
    /\ Deleted(SavedPath("image_2.tiff"))
    /\ result.imagesDeleted = 2

\* ---------------------------------------------------------------------
\* The extension of an embedded DOCX image
\* ---------------------------------------------------------------------

\* The subtype of a declared content type: what stands behind its first "/",
\* up to the next one; "" for a content type that is absent or has no "/".
DeclaredSubtype(contentType) ==
    IF contentType = Undefined \/ ~Contains(contentType, "/") THEN ""
    ELSE LET first == CHOOSE k \in 1..Len(contentType) :
                          /\ Char(contentType, k) = "/"
                          /\ \A j \in 1..(k - 1) : Char(contentType, j) # "/"
             rest == SubSeq(contentType, first + 1, Len(contentType))
         IN  IF Contains(rest, "/")
             THEN SubSeq(rest, 1, (CHOOSE k \in 1..Len(rest) :
                                      /\ Char(rest, k) = "/"
                                      /\ \A j \in 1..(k - 1) : Char(rest, j) # "/") - 1)
             ELSE rest

ExpectedDocxExtension(contentType) ==
    IF DeclaredSubtype(contentType) = "" THEN "png" ELSE DeclaredSubtype(contentType)

\* The hook for image i got the data of the image, and neither image.read nor
\* writeFile failed in it.
HookUndisturbed(i) ==
    /\ Happened("image.read", ToString(i), TRUE)
    /\ ~Happened("convertImage", ToString(i), FALSE)

\* C23: in the DOCX path a hook whose reads and writes succeed does not end
\* with an error; its file name is image_<n>.<ext> with <ext> the subtype of
\* the declared content type, and png when the content type is absent or has
\* no subtype; once it has returned, the file is saved under that name and
\* the name is the replacement reference.
C23_DocxExtensionFromContentTypeDefaultPng ==
    pc = "convertToHtml" =>
        \A i \in 1..Len(hooks) :
            HookUndisturbed(i) =>
                /\ hooks[i].state \in {"writing", "returned"}
                /\ NumericSuffix(hooks[i].filename) >= 1
                /\ EndsWith(hooks[i].filename, "." \o ExpectedDocxExtension(docxImages[i]))
                /\ hooks[i].state = "returned" =>
                      /\ hooks[i].filename \in SavedNames
                      /\ SavedPath(hooks[i].filename) \in DOMAIN disk
                      /\ Contains(HtmlOf(hooks), "src=\"" \o hooks[i].filename \o "\"")

\* ---------------------------------------------------------------------
\* The release of the PDF parser
\* ---------------------------------------------------------------------

\* The calls of the three extraction operations of the parser.
ParserExtractionCalls == Calls("getScreenshot") \cup Calls("getText") \cup Calls("getImage")

\* C24: in every run that has created the PDF parser and has ended, resolved
\* or rejected, destroy was called exactly once, and after every extraction
\* call (getScreenshot, getText, getImage) of the run, also when one of those
\* calls failed.
C24_ParserDestroyedExactlyOnce ==
    /\ Cardinality(Calls("destroy")) <= 1
    /\ \A d \in Calls("destroy") : \A e \in ParserExtractionCalls : e < d
    /\ (Terminated /\ Did("new PDFParse")) => Cardinality(Calls("destroy")) = 1

\* ---------------------------------------------------------------------
\* Overlapping invocations of the DOCX image hook
\* ---------------------------------------------------------------------

\* C25: in the DOCX path, also when the invocations of the hook interleave at
\* their awaits, two invocations never compute the same file name and
\* savedImages holds no file name twice.
C25_OverlappingHooksDistinctFilenames ==
    /\ \A i, j \in 1..Len(hooks) :
          (i # j /\ hooks[i].filename # "" /\ hooks[j].filename # "")
              => hooks[i].filename # hooks[j].filename
    /\ \A i, j \in 1..Len(savedImages) :
          i # j => savedImages[i].filename # savedImages[j].filename

\* ---------------------------------------------------------------------
\* Saved PDF images and the pages that announce them
\* ---------------------------------------------------------------------

\* The page entries whose imageFilenames hold the file name.
PagesNaming(filename) ==
    { i \in 1..Len(pageContents) :
        \E j \in 1..Len(pageContents[i].imageFilenames) :
            pageContents[i].imageFilenames[j] = filename }

\* C26: in the PDF path, once the pages are built, every saved image file name
\* is in the imageFilenames of exactly one page entry, the one whose pageNumber
\* is the pageNumber of the saved image, and so stands in the trailer of that
\* page's text block; whatever the lengths of the screenshot array and of the
\* embedded-image array.
C26_EverySavedImageOnItsPage ==
    (Extracted /\ Kind = "pdf") =>
        \A k \in 1..Len(savedImages) :
            /\ Cardinality(PagesNaming(savedImages[k].filename)) = 1
            /\ \A i \in PagesNaming(savedImages[k].filename) :
                  /\ pageContents[i].pageNumber = savedImages[k].pageNumber
                  /\ Contains(BlocksOfType("text")[i].text, savedImages[k].filename)

\* ---------------------------------------------------------------------
\* What the clean-up leaves alone
\* ---------------------------------------------------------------------

\* The run wrote the file (writeFile resolved for its path).
WrittenByRun(path) == Happened("writeFile", path, TRUE)

\* C27: the clean-up calls unlinkSync only on files of the output directory
\* named in savedImages; after every run that resolved the Markdown output
\* file is there with the Markdown text, and at every moment a file that was
\* there before the run and that the run did not write is there unchanged.
C27_CleanupDeletesOnlySavedImages ==
    /\ \A k \in Calls("unlinkSync") :
          \E name \in SavedNames : trace[k].arg = Join(outputDir, name)
    /\ pc = "done" =>
          /\ outputPath \in DOMAIN disk
          /\ disk[outputPath] = markdownContent
    /\ \A p \in DOMAIN FrameDisk :
          ~WrittenByRun(p) => p \in DOMAIN disk /\ disk[p] = FrameDisk[p]

\* ---------------------------------------------------------------------
\* A failure of the model call
\* ---------------------------------------------------------------------

\* The stream of the model failed.
ModelCallFailed == Happened("stream", "", FALSE)

\* C28: when the model call fails after the extraction has saved k images,
\* the run is rejected and the clean-up never runs: the k saved image files
\* are on disk, no file was deleted, the Markdown file was not written and no
\* ConvertResult is returned.
C28_ModelFailureLeavesSavedImages ==
    ModelCallFailed =>
        /\ pc = "rejected"
        /\ result = NoResult
        /\ Calls("unlinkSync") = {}
        /\ deletedCount = 0
        /\ usedImages = {}
        /\ MarkdownWrites = {}
        /\ \A k \in 1..Len(savedImages) : SavedPath(savedImages[k].filename) \in DOMAIN disk
        /\ Cardinality({ p \in DOMAIN disk : \E name \in SavedNames : p = SavedPath(name) })
              = Cardinality(SavedNames)

\* The stream failed after two images were saved and a chunk had arrived.
C28_Witness ==
    /\ ModelCallFailed
    /\ pc = "rejected"
    /\ Len(savedImages) = 2
    /\ Len(chunks) = 1
    /\ \A name \in SavedNames : SavedPath(name) \in DOMAIN disk

\* ---------------------------------------------------------------------
\* The inputs the command line accepts
\* ---------------------------------------------------------------------

\* The path ends in .pdf or .docx, in any case of the letters.
IsPdfOrDocx(path) ==
    EndsWith(ToLowerCase(path), ".pdf") \/ EndsWith(ToLowerCase(path), ".docx")

\* main has come to the checks of an input path given as argument: no flag
\* and no setup command ended it before, and it has a credential.
ArgumentInputChecked(c) ==
    /\ InputFromArguments(c)
    /\ ~HasArgument(c, {"-h", "--help", "-v", "--version"})
    /\ c.apiKey # Unresolved /\ ~Falsy(c.apiKey)

\* C29: every input path the command line passes to convert exists and has,
\* lower-cased, the extension .pdf or .docx; for an input path with another
\* extension, the image extensions included, main exits with code 1 and
\* convert is not called.
C29_CliPassesOnlyExistingPdfOrDocx ==
    cli.pc # "none" =>
        /\ \A k \in 1..Len(cli.convertCalls) :
              /\ cli.convertCalls[k].inputFilePath \in ExistingFiles
              /\ IsPdfOrDocx(cli.convertCalls[k].inputFilePath)
        /\ (ArgumentInputChecked(cli) /\ ~IsPdfOrDocx(cli.args[1])) =>
              /\ cli.pc = "exited"
              /\ cli.exitCode = 1
              /\ cli.convertCalls = <<>>

\* The existing image in/scan.jpeg is refused.
C29_Witness ==
    /\ cli.args = << "in/scan.jpeg" >>
    /\ ~Falsy(cli.apiKey) /\ cli.apiKey # Unresolved
    /\ cli.pc = "exited"
    /\ cli.exitCode = 1
    /\ cli.message = "Unsupported file type: .jpeg. Only PDF and DOCX files are supported."
    /\ cli.convertCalls = <<>>

====
